---- MODULE Spec2Model ----
(***************************************************************************)
(* stellar-wallet-to-euros: the FIFO cost-basis engine computeFifoFills    *)
(* (src/src/report/fifo.ts), the ledger builder processTransactions        *)
(* (stellar/process-transactions.ts, src/unnamed/part_009 lines 1-203) and *)
(* the conversions of src/src/domain/units.ts, each as a state machine.    *)
(*                                                                         *)
(* One behaviour is one invocation of computeFifoFills.  The TxRow list is *)
(* revealed as the loops consume it: BeginTx is the header of the outer    *)
(* loop taking the next TxRow, each operation action is one iteration of   *)
(* the inner loop dispatching one TxOpSummary, NetworkFee is the code      *)
(* after the inner loop, Return is the final return statement.  A thrown   *)
(* Error ends the invocation (pc = "threw").                               *)
(*                                                                         *)
(* Spec is one invocation.  SpecTwice is two invocations, one after the    *)
(* other, with the same arguments: the first reads an arbitrary list, which*)
(* txRows records as it is read; when it has ended, Invoke enters the      *)
(* function again (inventories, batchSeq and fills are built on entry) and *)
(* the second invocation reads the recorded list.                          *)
(*                                                                         *)
(* SpecLedger is one invocation of processTransactions, with the same      *)
(* reading of the loops: BeginTransaction takes the next transaction, each *)
(* Rec action dispatches one Horizon operation record, FeeAndSnapshot is   *)
(* the code after the inner loop, ReturnRows the return statement.  The    *)
(* loop variables tx, op, the counters, pc, error and txRows are those of  *)
(* the function that is running.                                           *)
(*                                                                         *)
(* SpecUnits is one call of toStroops or valueCentsFromStroops on an       *)
(* argument drawn from the input sets.                                     *)
(*                                                                         *)
(* SpecLoop is one invocation of computeFifoFills in which the while loop  *)
(* of dispose takes one step per iteration (pc = "while"), for the         *)
(* disposals of outbound payments and network fees; the interpreter runs   *)
(* the function on until it returns or throws (weak fairness of the next-  *)
(* state relation).                                                        *)
(*                                                                         *)
(* SpecMain is the sequence of main (src/src/main.ts lines 71-75):         *)
(* processTransactions runs as in SpecLedger and, when it has returned,    *)
(* computeFifoFills replays the rows it returned, with a price book that has*)
(* every price those rows need.                                            *)
(*                                                                         *)
(* SpecCsv is one call of buildEventsCsv (src/src/export/fifo-csv.ts) and  *)
(* SpecHorizon one call of fetchTransactionsWithOps                        *)
(* (src/src/stellar/horizon.ts), each on arguments drawn from the input    *)
(* sets; the Horizon server answers every request, with one page of records*)
(* shorter than the page limit.                                            *)
(*                                                                         *)
(* Numbers.  The source computes on bigint; TLC's integers are 32 bit, and *)
(* the source's divisor 10^7 * (10^6 / 100) = 10^11 does not fit.  The     *)
(* model keeps STROOPS_PER_UNIT = 10^7 and every formula of the source as  *)
(* written, and shortens the price scale: MICRO_PER_EUR is 100 here (the   *)
(* source: 1,000,000), so that STROOPSxMICRO_PER_CENT = 10^7.  Inputs are  *)
(* chosen so that no product exceeds 2^31 (TLC reports an overflow as an   *)
(* error, it never wraps).                                                 *)
(*                                                                         *)
(* Dates.  A Date is its epoch millisecond value.  dateKeyUTC yields the   *)
(* UTC calendar day, represented by its day number since the epoch (one    *)
(* number per "YYYY-MM-DD" string); toISOString yields the pair of that    *)
(* day and the time of day.                                                *)
(*                                                                         *)
(* Strings built by interpolation (batch ids, price keys, error messages)  *)
(* are tuples or records of their literal and interpolated parts.  Strings *)
(* that are parsed (amounts, fees) are the sequences of their characters.  *)
(***************************************************************************)
EXTENDS Integers, Sequences, FiniteSets, TLC

(* ------------------------------ bounds -------------------------------- *)

\* number of TxRows in the input list
MaxTx == 2

\* total number of operations over all TxRows of the input list
MaxOps == 3

\* total number of operations of an input list that is processed twice
MaxOpsTwice == 2

\* longest fraction (digits after the decimal point) of an amount string
MaxFractionDigits == 9

\* number of transactions passed to processTransactions
MaxLedgerTx == 2

\* total number of their operations
MaxLedgerOps == 2

(* ------------------------- program constants -------------------------- *)

STROOPS_PER_UNIT == 10000000

\* price scale, shortened (see header)
MICRO_PER_EUR == 100

STROOPSxMICRO_PER_CENT == STROOPS_PER_UNIT * (MICRO_PER_EUR \div 100)

DAY_IN_MS == 86400000

(* ------------------------------- types -------------------------------- *)

Currency == {"XLM", "USDC", "EURC"}

AcqKind == {"create_account", "payment_in", "swap_in", "blend_withdraw", "eurc_par"}

DispKind == {"payment_out", "swap_out", "blend_deposit", "swap_fee", "network_fee"}

(* ------------------------------- inputs ------------------------------- *)

\* amountStroops / feeStroops values of the input: 0, 0.25 and 0.5 units
Amounts == {0, 2500000, 5000000}

Fees == {0, 2500000}

\* amounts of inbound payment, blend_deposit and swap_fee ops
SmallAmounts == {0, 2500000}

\* amounts of blend_withdraw ops
WithdrawAmounts == {0, 5000000}

\* source amounts of swap ops, one of them odd
SourceAmounts == {0, 3, 5000000}

\* destination amounts of swap ops
DestAmounts == {0, 2500000}

\* tx.date values: 1970-01-01T12:00 and 1970-01-02T00:00
Timestamps == {43200000, 86400000}

\* tx.transactionHash of the i-th TxRow (ledger hashes are unique)
TxHash(i) == <<"tx", i>>

\* op.kind values without amounts that computeFifoFills has no branch for
\* (two of them)
UnhandledKinds == {"change_trust", "set_options"}

\* sell_offer ops of the input: 0.5 XLM sold for 0.25 of another currency
SellOfferDestinations == {"USDC", "EURC"}

\* "<currency>:<dateKey>"
priceKey(currency, dateKey) == <<currency, dateKey>>

\* market prices the price book may hold (EUR/100 per unit)
MarketPrice(currency, dateKey) ==
  IF currency = "XLM" THEN (IF dateKey = 0 THEN 50 ELSE 30)
                      ELSE (IF dateKey = 0 THEN 95 ELSE 90)

FullBook ==
  [k \in {priceKey(c, d) : c \in {"XLM", "USDC"}, d \in {0, 1}} |->
     [priceMicroEur |-> MarketPrice(k[1], k[2])]]

Restrict(f, S) == [x \in S |-> f[x]]

\* the price books of the runs: complete, two entries missing, empty
PriceBooks ==
  {FullBook,
   Restrict(FullBook, DOMAIN FullBook \ {priceKey("XLM", 1), priceKey("USDC", 0)}),
   Restrict(FullBook, {})}

(* ------------------------------- state -------------------------------- *)

VARIABLES
  priceBook,    \* argument priceBook
  inventories,  \* Record<Currency, Batch[]>
  batchSeq,     \* sequence counters for batch ids
  fills,        \* Fill[]
  tx,           \* the element of the current iteration of the outer loop
                \* (computeFifoFills: a TxRow; processTransactions: a
                \* Horizon transaction record)
  op,           \* the element of the current iteration of the inner loop
                \* (a TxOpSummary; a Horizon operation record)
  txCount,      \* TxRows taken from the input so far
  opCount,      \* operations taken from the input so far
  pc,           \* "next": at the outer loop header; "ops": in the inner loop;
                \* "returned": result returned; "threw": Error thrown
  error,        \* the Error thrown, NoError otherwise
  txRows,       \* computeFifoFills: argument txRows, as far as the first
                \* invocation has read it; processTransactions: the TxRow[]
                \* it builds
  invocation,   \* 1: the first call of computeFifoFills; 2: the second
  firstResult,  \* what the first invocation returned or threw
  balances,     \* processTransactions: the running Balances
  rowOps,       \* processTransactions: the TxOpSummary[] of the current transaction
  trades,       \* processTransactions: the trades of the current transaction
  args,         \* the arguments of a call of a function of domain/units.ts;
                \* SpecLoop: the parameters and locals of the dispose call
                \* that is in its while loop
  result        \* what the call of the units function returned or threw

vars == <<priceBook, inventories, batchSeq, fills, tx, op, txCount, opCount, pc, error,
          txRows, invocation, firstResult, balances, rowOps, trades, args, result>>

\* the variables computeFifoFills does not have
ledgerVars == <<balances, rowOps, trades>>

unitsVars == <<args, result>>

NoError == [name |-> "none"]

(* ------------------------ domain/units.ts ----------------------------- *)

\* bigint division truncates toward zero
TruncDiv(a, b) == IF a >= 0 THEN a \div b ELSE -((-a) \div b)

\* valueCentsFromStroops without the half added before dividing
valueCentsFromStroops_Truncating(amountStroops, priceMicro) ==
  TruncDiv(amountStroops * priceMicro, STROOPSxMICRO_PER_CENT)

\* valueCentsFromStroops with a division that rounds toward minus infinity
valueCentsFromStroops_FloorDivision(amountStroops, priceMicro) ==
  LET num == amountStroops * priceMicro
  IN IF num >= 0
       THEN (num + STROOPSxMICRO_PER_CENT \div 2) \div STROOPSxMICRO_PER_CENT
       ELSE (num - STROOPSxMICRO_PER_CENT \div 2) \div STROOPSxMICRO_PER_CENT

valueCentsFromStroops(amountStroops, priceMicro) ==
  LET num == amountStroops * priceMicro
  IN IF num >= 0
       THEN TruncDiv(num + STROOPSxMICRO_PER_CENT \div 2, STROOPSxMICRO_PER_CENT)
       ELSE TruncDiv(num - STROOPSxMICRO_PER_CENT \div 2, STROOPSxMICRO_PER_CENT)

(* ------------------------ pricing/date-keys.ts ------------------------ *)

dateKeyUTC(date) == date \div DAY_IN_MS

\* Date.prototype.toISOString: calendar day and time of day
toISOString(date) == <<date \div DAY_IN_MS, date % DAY_IN_MS>>

(* --------------------------- report/fifo.ts --------------------------- *)

\* String(n): the decimal digits of a natural number
DigitChar(d) == <<"0", "1", "2", "3", "4", "5", "6", "7", "8", "9">>[d + 1]

RECURSIVE String(_)
String(n) == IF n < 10 THEN <<DigitChar(n)>>
                       ELSE String(n \div 10) \o <<DigitChar(n % 10)>>

RECURSIVE padStart(_, _, _)
padStart(str, targetLength, fill) ==
  IF Len(str) >= targetLength THEN str
                              ELSE padStart(<<fill>> \o str, targetLength, fill)

\* the EURC lot the inventories are constructed with
ParLot ==
  [batchId |-> <<"EURC", "#", "PAR">>,
   currency |-> "EURC",
   acquiredAt |-> 0,
   acqKind |-> "eurc_par",
   acqTxHash |-> <<"PAR">>,
   priceMicroAtAcq |-> MICRO_PER_EUR,
   qtyInitialStroops |-> 0,
   qtyRemainingStroops |-> 0]

\* the mutable state of one invocation; error # NoError once something threw
Engine(inv, seq, fs, err) ==
  [inventories |-> inv, batchSeq |-> seq, fills |-> fs, error |-> err]

Throw(st, err) == [st EXCEPT !.error = err]

\* result of an expression that may throw
Value(v) == [error |-> NoError, value |-> v]

Raise(err) == [error |-> err, value |-> 0]

\* an Error was thrown (by an expression, or earlier in the invocation)
Failed(r) == r.error.name # "none"

MissingPrice(key) == [name |-> "Error", text |-> "Missing price for", key |-> key]

\* getPriceMicro that prices a missing entry at 0 instead of throwing
getPriceMicro_ZeroIfMissing(book, currency, date) ==
  IF currency = "EURC" THEN Value(MICRO_PER_EUR)
  ELSE LET key == priceKey(currency, dateKeyUTC(date))
       IN IF key \notin DOMAIN book
            THEN Value(0)
            ELSE Value(book[key].priceMicroEur)

getPriceMicro(book, currency, date) ==
  IF currency = "EURC" THEN Value(MICRO_PER_EUR)
  ELSE LET key == priceKey(currency, dateKeyUTC(date))
       IN IF key \notin DOMAIN book
            THEN Raise(MissingPrice(key))
            ELSE Value(book[key].priceMicroEur)

\* impliedPerSourceMicro without the half added before dividing
impliedPerSourceMicro_Truncating(destAmountStroops, destPriceMicro, srcAmountStroops) ==
  IF srcAmountStroops = 0
    THEN Raise([name |-> "RangeError", text |-> "Division by zero"])
    ELSE Value(TruncDiv(destAmountStroops * destPriceMicro, srcAmountStroops))

\* bigint division by 0n throws a RangeError
impliedPerSourceMicro(destAmountStroops, destPriceMicro, srcAmountStroops) ==
  IF srcAmountStroops = 0
    THEN Raise([name |-> "RangeError", text |-> "Division by zero"])
    ELSE Value(TruncDiv(destAmountStroops * destPriceMicro
                          + TruncDiv(srcAmountStroops, 2),
                        srcAmountStroops))

\* newBatchId numbering the batches of all currencies with one counter
newBatchId_SharedCounter(seq, currency) ==
  LET n == seq["XLM"] + seq["USDC"] + 1
  IN [batchSeq |-> [seq EXCEPT ![currency] = n],
      id |-> <<currency, "#">> \o padStart(String(n), 4, "0")]

\* ++batchSeq[currency], then the id built from the new counter value
newBatchId(seq, currency) ==
  LET n == seq[currency] + 1
  IN [batchSeq |-> [seq EXCEPT ![currency] = n],
      id |-> <<currency, "#">> \o padStart(String(n), 4, "0")]

\* CreditParLot without the tally of total inflow
CreditParLot_RemainingOnly(lot, qty) ==
  [lot EXCEPT !.qtyRemainingStroops = @ + qty]

\* lot.qtyRemainingStroops += qty; lot.qtyInitialStroops += qty
CreditParLot(lot, qty) ==
  [lot EXCEPT !.qtyRemainingStroops = @ + qty, !.qtyInitialStroops = @ + qty]

\* addBatch without the early return for a quantity of 0n
addBatch_NoZeroReturn(st, book, currency, qty, date, txHash, acqKind) ==
  IF currency = "EURC"
    THEN [st EXCEPT !.inventories["EURC"][1] = CreditParLot(@, qty)]
    ELSE LET nb == newBatchId(st.batchSeq, currency)
             price == getPriceMicro(book, currency, date)
         IN IF Failed(price)
              THEN [st EXCEPT !.batchSeq = nb.batchSeq, !.error = price.error]
              ELSE [st EXCEPT
                      !.batchSeq = nb.batchSeq,
                      !.inventories[currency] = Append(@,
                         [batchId |-> nb.id,
                          currency |-> currency,
                          acquiredAt |-> date,
                          acqKind |-> acqKind,
                          acqTxHash |-> txHash,
                          priceMicroAtAcq |-> price.value,
                          qtyInitialStroops |-> qty,
                          qtyRemainingStroops |-> qty])]

\* addBatch that tops up the newest lot of the currency, when there is one,
\* instead of pushing a new lot
addBatch_TopUpNewest(st, book, currency, qty, date, txHash, acqKind) ==
  IF qty = 0 THEN st
  ELSE IF currency = "EURC"
    THEN [st EXCEPT !.inventories["EURC"][1] = CreditParLot(@, qty)]
    ELSE IF Len(st.inventories[currency]) > 0
      THEN [st EXCEPT !.inventories[currency][Len(st.inventories[currency])] =
                         CreditParLot(@, qty)]
      ELSE LET nb == newBatchId(st.batchSeq, currency)
               price == getPriceMicro(book, currency, date)
           IN IF Failed(price)
                THEN [st EXCEPT !.batchSeq = nb.batchSeq, !.error = price.error]
                ELSE [st EXCEPT
                        !.batchSeq = nb.batchSeq,
                        !.inventories[currency] = Append(@,
                           [batchId |-> nb.id,
                            currency |-> currency,
                            acquiredAt |-> date,
                            acqKind |-> acqKind,
                            acqTxHash |-> txHash,
                            priceMicroAtAcq |-> price.value,
                            qtyInitialStroops |-> qty,
                            qtyRemainingStroops |-> qty])]

addBatch(st, book, currency, qty, date, txHash, acqKind) ==
  IF qty = 0 THEN st
  ELSE IF currency = "EURC"
    THEN [st EXCEPT !.inventories["EURC"][1] = CreditParLot(@, qty)]
    ELSE LET nb == newBatchId(st.batchSeq, currency)
             price == getPriceMicro(book, currency, date)
         IN IF Failed(price)
              THEN [st EXCEPT !.batchSeq = nb.batchSeq, !.error = price.error]
              ELSE [st EXCEPT
                      !.batchSeq = nb.batchSeq,
                      !.inventories[currency] = Append(@,
                         [batchId |-> nb.id,
                          currency |-> currency,
                          acquiredAt |-> date,
                          acqKind |-> acqKind,
                          acqTxHash |-> txHash,
                          priceMicroAtAcq |-> price.value,
                          qtyInitialStroops |-> qty,
                          qtyRemainingStroops |-> qty])]

\* FindLot that takes the lot with the most quantity left (the earliest of
\* them)
FindLot_Fullest(inv) ==
  IF \E i \in 1..Len(inv) : inv[i].qtyRemainingStroops > 0
    THEN CHOOSE i \in 1..Len(inv) :
           /\ \A j \in 1..Len(inv) :
                inv[j].qtyRemainingStroops <= inv[i].qtyRemainingStroops
           /\ \A j \in 1..(i - 1) :
                inv[j].qtyRemainingStroops < inv[i].qtyRemainingStroops
    ELSE 0

\* FindLot that takes the newest lot with quantity left
FindLot_Newest(inv) ==
  IF \E i \in 1..Len(inv) : inv[i].qtyRemainingStroops > 0
    THEN CHOOSE i \in 1..Len(inv) :
           /\ inv[i].qtyRemainingStroops > 0
           /\ \A j \in (i + 1)..Len(inv) : ~(inv[j].qtyRemainingStroops > 0)
    ELSE 0

\* inv.find((b) => b.qtyRemainingStroops > 0n): index of the lot, 0 if none
FindLot(inv) ==
  IF \E i \in 1..Len(inv) : inv[i].qtyRemainingStroops > 0
    THEN CHOOSE i \in 1..Len(inv) :
           /\ inv[i].qtyRemainingStroops > 0
           /\ \A j \in 1..(i - 1) : ~(inv[j].qtyRemainingStroops > 0)
    ELSE 0

\* dispose's optional parameter proceedsPriceMicro: left out, or set
Undefined == <<>>

Set(v) == <<v>>

IsUndefined(opt) == Len(opt) = 0

FifoUnderflow(params, remaining) ==
  [name |-> "Error", text |-> "FIFO underflow for",
   currency |-> params.currency,
   on |-> toISOString(params.date),
   need |-> remaining]

EurcUnderflow(params, remaining, lot) ==
  [name |-> "Error", text |-> "EURC underflow on",
   currency |-> "EURC",
   on |-> toISOString(params.date),
   need |-> remaining,
   have |-> lot.qtyRemainingStroops]

\* Slice that takes all the lot holds, whatever is still requested
Slice_WholeLot(remaining, lot) == lot.qtyRemainingStroops

\* Slice that takes nothing from the lot
Slice_Nothing(remaining, lot) == 0

\* Slice that takes the whole request from the lot
Slice_Whole(remaining, lot) == remaining

\* remaining <= lot.qtyRemainingStroops ? remaining : lot.qtyRemainingStroops
Slice(remaining, lot) ==
  IF remaining <= lot.qtyRemainingStroops THEN remaining
                                          ELSE lot.qtyRemainingStroops

\* FifoFill that records the quantity asked for instead of the slice taken
FifoFill_RequestedAmount(params, lot, slice, disposalPrice) ==
  LET proceedsCents == valueCentsFromStroops(slice, disposalPrice)
      costCents == valueCentsFromStroops(slice, lot.priceMicroAtAcq)
  IN [txHash |-> params.txHash,
      currency |-> params.currency,
      amountStroops |-> params.amountStroops,
      batchId |-> lot.batchId,
      acquiredAt |-> lot.acquiredAt,
      disposedAt |-> params.date,
      dispKind |-> params.dispKind,
      acqPriceMicro |-> lot.priceMicroAtAcq,
      dispPriceMicro |-> disposalPrice,
      proceedsCents |-> proceedsCents,
      costCents |-> costCents,
      gainLossCents |-> proceedsCents - costCents]

\* FifoFill that values the cost at the disposal price instead of the lot's
\* acquisition price
FifoFill_CostAtDisposalPrice(params, lot, slice, disposalPrice) ==
  LET proceedsCents == valueCentsFromStroops(slice, disposalPrice)
      costCents == valueCentsFromStroops(slice, disposalPrice)
  IN [txHash |-> params.txHash,
      currency |-> params.currency,
      amountStroops |-> slice,
      batchId |-> lot.batchId,
      acquiredAt |-> lot.acquiredAt,
      disposedAt |-> params.date,
      dispKind |-> params.dispKind,
      acqPriceMicro |-> lot.priceMicroAtAcq,
      dispPriceMicro |-> disposalPrice,
      proceedsCents |-> proceedsCents,
      costCents |-> costCents,
      gainLossCents |-> proceedsCents - costCents]

\* the Fill pushed by one iteration of the XLM / USDC loop
FifoFill(params, lot, slice, disposalPrice) ==
  LET proceedsCents == valueCentsFromStroops(slice, disposalPrice)
      costCents == valueCentsFromStroops(slice, lot.priceMicroAtAcq)
  IN [txHash |-> params.txHash,
      currency |-> params.currency,
      amountStroops |-> slice,
      batchId |-> lot.batchId,
      acquiredAt |-> lot.acquiredAt,
      disposedAt |-> params.date,
      dispKind |-> params.dispKind,
      acqPriceMicro |-> lot.priceMicroAtAcq,
      dispPriceMicro |-> disposalPrice,
      proceedsCents |-> proceedsCents,
      costCents |-> costCents,
      gainLossCents |-> proceedsCents - costCents]

\* ParLotShort that compares with the lot's total inflow
ParLotShort_Initial(lot, remaining) == lot.qtyInitialStroops < remaining

\* lot.qtyRemainingStroops < remaining
ParLotShort(lot, remaining) == lot.qtyRemainingStroops < remaining

\* ParFill with || for ??: a proceeds price of 0n falls back to par
ParFill_OrPar(params, lot, remaining) ==
  LET dispPrice == IF IsUndefined(params.proceedsPriceMicro)
                       \/ params.proceedsPriceMicro[1] = 0
                     THEN MICRO_PER_EUR
                     ELSE params.proceedsPriceMicro[1]
      proceedsCents == valueCentsFromStroops(remaining, dispPrice)
      costCents == valueCentsFromStroops(remaining, MICRO_PER_EUR)
  IN [txHash |-> params.txHash,
      currency |-> "EURC",
      amountStroops |-> remaining,
      batchId |-> lot.batchId,
      acquiredAt |-> lot.acquiredAt,
      disposedAt |-> params.date,
      dispKind |-> params.dispKind,
      acqPriceMicro |-> MICRO_PER_EUR,
      dispPriceMicro |-> dispPrice,
      proceedsCents |-> proceedsCents,
      costCents |-> costCents,
      gainLossCents |-> proceedsCents - costCents]

\* the Fill pushed by an EURC disposal
ParFill(params, lot, remaining) ==
  LET dispPrice == IF IsUndefined(params.proceedsPriceMicro)
                     THEN MICRO_PER_EUR
                     ELSE params.proceedsPriceMicro[1]
      proceedsCents == valueCentsFromStroops(remaining, dispPrice)
      costCents == valueCentsFromStroops(remaining, MICRO_PER_EUR)
  IN [txHash |-> params.txHash,
      currency |-> "EURC",
      amountStroops |-> remaining,
      batchId |-> lot.batchId,
      acquiredAt |-> lot.acquiredAt,
      disposedAt |-> params.date,
      dispKind |-> params.dispKind,
      acqPriceMicro |-> MICRO_PER_EUR,
      dispPriceMicro |-> dispPrice,
      proceedsCents |-> proceedsCents,
      costCents |-> costCents,
      gainLossCents |-> proceedsCents - costCents]

\* DisposeLoop that takes a lot off the list once it is used up
RECURSIVE DisposeLoop_DropDepleted(_, _, _, _)
DisposeLoop_DropDepleted(st, params, disposalPrice, remaining) ==
  IF ~(remaining > 0) THEN st
  ELSE
    LET inv == st.inventories[params.currency]
        i == FindLot(inv)
    IN IF i = 0
         THEN Throw(st, FifoUnderflow(params, remaining))
         ELSE
           LET lot == inv[i]
               slice == Slice(remaining, lot)
               debited == [inv EXCEPT ![i].qtyRemainingStroops = @ - slice]
               kept == IF debited[i].qtyRemainingStroops = 0
                         THEN [j \in 1..(Len(inv) - 1) |->
                                 IF j < i THEN debited[j] ELSE debited[j + 1]]
                         ELSE debited
           IN DisposeLoop_DropDepleted(
                [st EXCEPT
                   !.fills = Append(@, FifoFill(params, lot, slice, disposalPrice)),
                   !.inventories[params.currency] = kept],
                params, disposalPrice, remaining - slice)

\* the while loop of dispose over an XLM / USDC inventory
RECURSIVE DisposeLoop(_, _, _, _)
DisposeLoop(st, params, disposalPrice, remaining) ==
  IF ~(remaining > 0) THEN st
  ELSE
    LET inv == st.inventories[params.currency]
        i == FindLot(inv)
    IN IF i = 0
         THEN Throw(st, FifoUnderflow(params, remaining))
         ELSE
           LET lot == inv[i]
               slice == Slice(remaining, lot)
           IN DisposeLoop(
                [st EXCEPT
                   !.fills = Append(@, FifoFill(params, lot, slice, disposalPrice)),
                   !.inventories[params.currency][i].qtyRemainingStroops = @ - slice],
                params, disposalPrice, remaining - slice)

\* dispose that walks the XLM / USDC lots before it looks the disposal price
\* up
dispose_WalkBeforeLookup(st, book, params) ==
  LET remaining == params.amountStroops
  IN IF remaining = 0 THEN st
     ELSE IF params.currency = "EURC"
       THEN
         LET lot == st.inventories["EURC"][1]
         IN IF ParLotShort(lot, remaining)
              THEN Throw(st, EurcUnderflow(params, remaining, lot))
              ELSE [st EXCEPT
                      !.fills = Append(@, ParFill(params, lot, remaining)),
                      !.inventories["EURC"][1].qtyRemainingStroops = @ - remaining]
       ELSE
         LET disposalPrice ==
               IF IsUndefined(params.proceedsPriceMicro)
                 THEN getPriceMicro(book, params.currency, params.date)
                 ELSE Value(params.proceedsPriceMicro[1])
         IN IF Failed(disposalPrice)
              THEN Throw(DisposeLoop(st, params, 0, remaining), disposalPrice.error)
              ELSE DisposeLoop(st, params, disposalPrice.value, remaining)

\* dispose without the early return for an amount of 0n
dispose_NoZeroReturn(st, book, params) ==
  LET remaining == params.amountStroops
  IN IF params.currency = "EURC"
       THEN
         LET lot == st.inventories["EURC"][1]
         IN IF ParLotShort(lot, remaining)
              THEN Throw(st, EurcUnderflow(params, remaining, lot))
              ELSE [st EXCEPT
                      !.fills = Append(@, ParFill(params, lot, remaining)),
                      !.inventories["EURC"][1].qtyRemainingStroops = @ - remaining]
       ELSE
         LET disposalPrice ==
               IF IsUndefined(params.proceedsPriceMicro)
                 THEN getPriceMicro(book, params.currency, params.date)
                 ELSE Value(params.proceedsPriceMicro[1])
         IN IF Failed(disposalPrice)
              THEN Throw(st, disposalPrice.error)
              ELSE DisposeLoop(st, params, disposalPrice.value, remaining)

\* dispose that takes the proceeds price of an EURC disposal from the book
\* (when none is passed) instead of par
dispose_BookPricedEurc(st, book, params) ==
  LET remaining == params.amountStroops
      key == priceKey(params.currency, dateKeyUTC(params.date))
  IN IF remaining = 0 THEN st
     ELSE IF params.currency = "EURC"
       THEN
         LET lot == st.inventories["EURC"][1]
         IN IF ParLotShort(lot, remaining)
              THEN Throw(st, EurcUnderflow(params, remaining, lot))
            ELSE IF IsUndefined(params.proceedsPriceMicro) /\ key \notin DOMAIN book
              THEN Throw(st, MissingPrice(key))
              ELSE [st EXCEPT
                      !.fills = Append(@, ParFill(params, lot, remaining)),
                      !.inventories["EURC"][1].qtyRemainingStroops = @ - remaining]
       ELSE
         LET disposalPrice ==
               IF IsUndefined(params.proceedsPriceMicro)
                 THEN getPriceMicro(book, params.currency, params.date)
                 ELSE Value(params.proceedsPriceMicro[1])
         IN IF Failed(disposalPrice)
              THEN Throw(st, disposalPrice.error)
              ELSE DisposeLoop(st, params, disposalPrice.value, remaining)

\* dispose that records the EURC fill and debits the par lot before it
\* checks the lot
dispose_RecordThenCheck(st, book, params) ==
  LET remaining == params.amountStroops
  IN IF remaining = 0 THEN st
     ELSE IF params.currency = "EURC"
       THEN
         LET lot == st.inventories["EURC"][1]
             recorded ==
               [st EXCEPT
                  !.fills = Append(@, ParFill(params, lot, remaining)),
                  !.inventories["EURC"][1].qtyRemainingStroops = @ - remaining]
         IN IF ParLotShort(lot, remaining)
              THEN Throw(recorded, EurcUnderflow(params, remaining, lot))
              ELSE recorded
       ELSE
         LET disposalPrice ==
               IF IsUndefined(params.proceedsPriceMicro)
                 THEN getPriceMicro(book, params.currency, params.date)
                 ELSE Value(params.proceedsPriceMicro[1])
         IN IF Failed(disposalPrice)
              THEN Throw(st, disposalPrice.error)
              ELSE DisposeLoop(st, params, disposalPrice.value, remaining)

\* dispose that undoes the fills and debits of an XLM / USDC disposal that
\* underflows
dispose_RollBack(st, book, params) ==
  LET remaining == params.amountStroops
  IN IF remaining = 0 THEN st
     ELSE IF params.currency = "EURC"
       THEN
         LET lot == st.inventories["EURC"][1]
         IN IF ParLotShort(lot, remaining)
              THEN Throw(st, EurcUnderflow(params, remaining, lot))
              ELSE [st EXCEPT
                      !.fills = Append(@, ParFill(params, lot, remaining)),
                      !.inventories["EURC"][1].qtyRemainingStroops = @ - remaining]
       ELSE
         LET disposalPrice ==
               IF IsUndefined(params.proceedsPriceMicro)
                 THEN getPriceMicro(book, params.currency, params.date)
                 ELSE Value(params.proceedsPriceMicro[1])
             walked == DisposeLoop(st, params, disposalPrice.value, remaining)
         IN IF Failed(disposalPrice) THEN Throw(st, disposalPrice.error)
            ELSE IF Failed(walked) THEN Throw(st, walked.error)
            ELSE walked

dispose(st, book, params) ==
  LET remaining == params.amountStroops
  IN IF remaining = 0 THEN st
     ELSE IF params.currency = "EURC"
       THEN
         LET lot == st.inventories["EURC"][1]
         IN IF ParLotShort(lot, remaining)
              THEN Throw(st, EurcUnderflow(params, remaining, lot))
              ELSE [st EXCEPT
                      !.fills = Append(@, ParFill(params, lot, remaining)),
                      !.inventories["EURC"][1].qtyRemainingStroops = @ - remaining]
       ELSE
         LET disposalPrice ==
               IF IsUndefined(params.proceedsPriceMicro)
                 THEN getPriceMicro(book, params.currency, params.date)
                 ELSE Value(params.proceedsPriceMicro[1])
         IN IF Failed(disposalPrice)
              THEN Throw(st, disposalPrice.error)
              ELSE DisposeLoop(st, params, disposalPrice.value, remaining)

\* the argument object of a dispose call
DisposeParams(currency, amountStroops, date, txHash, dispKind, proceedsPriceMicro) ==
  [currency |-> currency, amountStroops |-> amountStroops, date |-> date,
   txHash |-> txHash, dispKind |-> dispKind,
   proceedsPriceMicro |-> proceedsPriceMicro]

(* ----------------- domain/units.ts: conversions ---------------------- *)

\* a string is the sequence of its characters
Digits == {DigitChar(d) : d \in 0..9}

DigitValue(ch) == CHOOSE d \in 0..9 : DigitChar(d) = ch

\* the number a sequence of decimal digits denotes
RECURSIVE Decimal(_)
Decimal(digits) ==
  IF Len(digits) = 0 THEN 0
  ELSE Decimal(SubSeq(digits, 1, Len(digits) - 1)) * 10 + DigitValue(digits[Len(digits)])

SyntaxError(str) == [name |-> "SyntaxError", text |-> "Cannot convert to a BigInt", str |-> str]

\* BigInt(str): the empty string is 0n; an optional sign and decimal digits;
\* anything else is a SyntaxError
BigInt(str) ==
  IF Len(str) = 0 THEN Value(0)
  ELSE LET signed == str[1] \in {"-", "+"}
           digits == IF signed THEN Tail(str) ELSE str
       IN IF Len(digits) > 0 /\ \A i \in 1..Len(digits) : digits[i] \in Digits
            THEN Value(IF str[1] = "-" THEN -Decimal(digits) ELSE Decimal(digits))
            ELSE Raise(SyntaxError(str))

\* position of the first occurrence of a character, 0 when there is none
IndexOf(str, ch) ==
  IF \E i \in 1..Len(str) : str[i] = ch
    THEN CHOOSE i \in 1..Len(str) : str[i] = ch /\ \A j \in 1..(i - 1) : str[j] # ch
    ELSE 0

\* String.prototype.replace with a string pattern: the first occurrence only
replace(str, pattern, replacement) ==
  LET i == IndexOf(str, pattern)
  IN IF i = 0 THEN str
     ELSE SubSeq(str, 1, i - 1) \o replacement \o SubSeq(str, i + 1, Len(str))

RECURSIVE split(_, _)
split(str, separator) ==
  LET i == IndexOf(str, separator)
  IN IF i = 0 THEN <<str>>
     ELSE <<SubSeq(str, 1, i - 1)>> \o split(SubSeq(str, i + 1, Len(str)), separator)

RECURSIVE padEnd(_, _, _)
padEnd(str, targetLength, fill) ==
  IF Len(str) >= targetLength THEN str
                              ELSE padEnd(str \o <<fill>>, targetLength, fill)

\* String.prototype.slice(start, end) for 0 <= start <= end
slice(str, start, end) ==
  SubSeq(str, start + 1, IF end < Len(str) THEN end ELSE Len(str))

InvalidAmountFormat(raw) == [name |-> "Error", text |-> "Invalid amount format", raw |-> raw]

\* toStroops without padEnd: the fraction digits are read as they stand
toStroops_NoPadding(raw) ==
  LET cleanAmount == replace(raw, ",", <<>>)
      parts == split(cleanAmount, ".")
  IN IF Len(parts) = 1 THEN BigInt(parts[1])
     ELSE IF Len(parts) = 2
       THEN LET integerPart == parts[1]
                decimalPart == slice(parts[2], 0, 7)
                i == BigInt(integerPart)
                d == BigInt(decimalPart)
            IN IF Failed(i) THEN i
               ELSE IF Failed(d) THEN d
               ELSE Value(i.value * STROOPS_PER_UNIT + d.value)
       ELSE Raise(InvalidAmountFormat(raw))

toStroops(raw) ==
  LET cleanAmount == replace(raw, ",", <<>>)
      parts == split(cleanAmount, ".")
  IN IF Len(parts) = 1 THEN BigInt(parts[1])
     ELSE IF Len(parts) = 2
       THEN LET integerPart == parts[1]
                decimalPart == slice(padEnd(parts[2], 7, "0"), 0, 7)
                i == BigInt(integerPart)
                d == BigInt(decimalPart)
            IN IF Failed(i) THEN i
               ELSE IF Failed(d) THEN d
               ELSE Value(i.value * STROOPS_PER_UNIT + d.value)
       ELSE Raise(InvalidAmountFormat(raw))

AssetCodeRequired == [name |-> "Error", text |-> "Asset code is required"]

\* toCurrency: the asset code is returned as it is (a cast, no check)
toCurrency(assetType, assetCode) ==
  IF assetType = "native" THEN Value("XLM")
  ELSE IF IsUndefined(assetCode) \/ assetCode = Set("") THEN Raise(AssetCodeRequired)
  ELSE Value(assetCode[1])

(* ------------------- computeFifoFills: the main loop ------------------ *)

\* no op taken: before the first op of a TxRow
NoOp == [kind |-> "none"]

\* no invocation has ended yet
NoResult == [pc |-> "none"]

\* const inventories = { XLM: [], USDC: [], EURC: [ par lot ] }, built on entry
NewInventories == [XLM |-> <<>>, USDC |-> <<>>, EURC |-> <<ParLot>>]

\* NewBatchSeq as a module-level object: the counters of the call before
NewBatchSeq_ModuleLevel(previous) == previous

\* const batchSeq = { XLM: 0, USDC: 0 }, built on entry whatever the call
\* before has left
NewBatchSeq(previous) == [XLM |-> 0, USDC |-> 0]

\* const balances = { XLM: 0n, USDC: 0n, EURC: 0n }
NewBalances == [XLM |-> 0, USDC |-> 0, EURC |-> 0]

\* the trades of a transaction, before any branch has looked at them
Unread == [read |-> FALSE]

\* no call of a units function is in progress
NoCall == [fn |-> "none"]

NotReturned == [returned |-> FALSE]

\* processTransactions is not running
NoLedger == balances = NewBalances /\ rowOps = <<>> /\ trades = Unread

\* no units function is being called on its own
NoUnits == args = NoCall /\ result = NotReturned

Init ==
  /\ NoLedger
  /\ NoUnits
  /\ priceBook \in PriceBooks
  /\ inventories = NewInventories
  /\ batchSeq = NewBatchSeq([XLM |-> 0, USDC |-> 0])
  /\ fills = <<>>
  /\ tx = [transactionHash |-> <<>>, date |-> 0, feeStroops |-> 0]
  /\ op = NoOp
  /\ txCount = 0
  /\ opCount = 0
  /\ pc = "next"
  /\ error = NoError
  /\ txRows = <<>>
  /\ invocation = 1
  /\ firstResult = NoResult

Current == Engine(inventories, batchSeq, fills, error)

\* the state after a statement sequence ended in st: continue at pcNext, or
\* leave the invocation with the Error
Commit(st, pcNext) ==
  /\ inventories' = st.inventories
  /\ batchSeq' = st.batchSeq
  /\ fills' = st.fills
  /\ error' = st.error
  /\ pc' = IF Failed(st) THEN "threw" ELSE pcNext

\* for (const tx of txRows): the next TxRow; the list is sorted by date
BeginTx ==
  /\ pc = "next"
  /\ txCount < MaxTx
  /\ \E date \in Timestamps, feeStroops \in Fees :
       /\ date >= tx.date
       /\ tx' = [transactionHash |-> TxHash(txCount + 1), date |-> date,
                 feeStroops |-> feeStroops]
  /\ op' = NoOp
  /\ txCount' = txCount + 1
  /\ pc' = "ops"
  /\ UNCHANGED <<priceBook, inventories, batchSeq, fills, opCount, error>>

\* for (const op of tx.ops): one more op of the current TxRow
TakeOp(o) ==
  /\ pc = "ops"
  /\ opCount < MaxOps
  /\ opCount' = opCount + 1
  /\ op' = o
  /\ UNCHANGED <<priceBook, tx, txCount>>

OpCreateAccount ==
  \E amountStroops \in Amounts :
    /\ TakeOp([kind |-> "create_account", amountStroops |-> amountStroops])
    /\ Commit(addBatch(Current, priceBook, "XLM", amountStroops, tx.date,
                       tx.transactionHash, "create_account"), "ops")

OpPaymentIn ==
  \E currency \in Currency, amountStroops \in SmallAmounts :
    /\ TakeOp([kind |-> "payment", direction |-> "in", currency |-> currency,
               amountStroops |-> amountStroops])
    /\ Commit(addBatch(Current, priceBook, currency, amountStroops, tx.date,
                       tx.transactionHash, "payment_in"), "ops")

OpPaymentOut ==
  \E currency \in Currency, amountStroops \in Amounts :
    /\ TakeOp([kind |-> "payment", direction |-> "out", currency |-> currency,
               amountStroops |-> amountStroops])
    /\ Commit(dispose(Current, priceBook,
                      DisposeParams(currency, amountStroops, tx.date,
                                    tx.transactionHash, "payment_out", Undefined)),
              "ops")

\* SwapBranch that records the destination batch at the implied price
SwapBranch_ImpliedAcqPrice(st, book, t, o) ==
  LET destMicro == getPriceMicro(book, o.destinationCurrency, t.date)
  IN IF Failed(destMicro) THEN Throw(st, destMicro.error)
     ELSE
       LET perSourceMicro == impliedPerSourceMicro(o.destinationAmountStroops,
                                                   destMicro.value,
                                                   o.sourceAmountStroops)
       IN IF Failed(perSourceMicro) THEN Throw(st, perSourceMicro.error)
          ELSE
            LET disposed ==
                  dispose(st, book,
                          DisposeParams(o.sourceCurrency, o.sourceAmountStroops,
                                        t.date, t.transactionHash, "swap_out",
                                        Set(perSourceMicro.value)))
                acquired ==
                  addBatch(disposed, book, o.destinationCurrency,
                           o.destinationAmountStroops, t.date,
                           t.transactionHash, "swap_in")
                inv == acquired.inventories[o.destinationCurrency]
            IN IF Failed(disposed) THEN disposed
               ELSE IF Failed(acquired) \/ o.destinationAmountStroops = 0
                 THEN acquired
                 ELSE [acquired EXCEPT
                         !.inventories[o.destinationCurrency][Len(inv)].priceMicroAtAcq =
                            perSourceMicro.value]

\* the swap branch
SwapBranch(st, book, t, o) ==
  LET destMicro == getPriceMicro(book, o.destinationCurrency, t.date)
  IN IF Failed(destMicro) THEN Throw(st, destMicro.error)
     ELSE
       LET perSourceMicro == impliedPerSourceMicro(o.destinationAmountStroops,
                                                   destMicro.value,
                                                   o.sourceAmountStroops)
       IN IF Failed(perSourceMicro) THEN Throw(st, perSourceMicro.error)
          ELSE
            LET disposed ==
                  dispose(st, book,
                          DisposeParams(o.sourceCurrency, o.sourceAmountStroops,
                                        t.date, t.transactionHash, "swap_out",
                                        Set(perSourceMicro.value)))
            IN IF Failed(disposed) THEN disposed
               ELSE addBatch(disposed, book, o.destinationCurrency,
                             o.destinationAmountStroops, t.date,
                             t.transactionHash, "swap_in")

OpSwap ==
  \E sourceCurrency \in Currency :
  \E destinationCurrency \in Currency \ {sourceCurrency},
     sourceAmountStroops \in SourceAmounts, destinationAmountStroops \in DestAmounts :
    LET o == [kind |-> "swap",
              sourceCurrency |-> sourceCurrency,
              sourceAmountStroops |-> sourceAmountStroops,
              destinationCurrency |-> destinationCurrency,
              destinationAmountStroops |-> destinationAmountStroops]
    IN /\ TakeOp(o)
       /\ Commit(SwapBranch(Current, priceBook, tx, o), "ops")

OpBlendDeposit ==
  \E currency \in Currency, amountStroops \in SmallAmounts :
    /\ TakeOp([kind |-> "blend_deposit", currency |-> currency,
               amountStroops |-> amountStroops])
    /\ Commit(dispose(Current, priceBook,
                      DisposeParams(currency, amountStroops, tx.date,
                                    tx.transactionHash, "blend_deposit", Undefined)),
              "ops")

OpBlendWithdraw ==
  \E currency \in Currency, amountStroops \in WithdrawAmounts :
    /\ TakeOp([kind |-> "blend_withdraw", currency |-> currency,
               amountStroops |-> amountStroops])
    /\ Commit(addBatch(Current, priceBook, currency, amountStroops, tx.date,
                       tx.transactionHash, "blend_withdraw"), "ops")

OpSwapFee ==
  \E currency \in Currency, amountStroops \in SmallAmounts :
    /\ TakeOp([kind |-> "swap_fee", currency |-> currency,
               amountStroops |-> amountStroops])
    /\ Commit(dispose(Current, priceBook,
                      DisposeParams(currency, amountStroops, tx.date,
                                    tx.transactionHash, "swap_fee", Set(0))),
              "ops")

\* a sell_offer op: no branch of the if-chain matches op.kind "sell_offer"
OpSellOffer ==
  \E destinationCurrency \in SellOfferDestinations :
    /\ TakeOp([kind |-> "sell_offer",
               sourceCurrency |-> "XLM",
               sourceAmountStroops |-> 5000000,
               destinationCurrency |-> destinationCurrency,
               destinationAmountStroops |-> 2500000])
    /\ Commit(Current, "ops")

\* an op of another kind no branch of the if-chain matches
OpUnhandled ==
  \E kind \in UnhandledKinds :
    /\ TakeOp([kind |-> kind])
    /\ Commit(Current, "ops")

\* FeeBranch that charges the fee as if before the ops of its TxRow: the
\* batches the TxRow itself acquired are not there to pay it
FeeBranch_BeforeOps(st, book, t) ==
  IF t.feeStroops # 0 /\ t.feeStroops > 0
    THEN
      LET own(b) == b.acqTxHash = t.transactionHash
          before ==
            [st EXCEPT !.inventories["XLM"] =
               [i \in 1..Len(@) |->
                  IF own(@[i]) THEN [@[i] EXCEPT !.qtyRemainingStroops = 0]
                               ELSE @[i]]]
          charged ==
            dispose(before, book,
                    DisposeParams("XLM", t.feeStroops, t.date, t.transactionHash,
                                  "network_fee", Set(0)))
      IN [charged EXCEPT !.inventories["XLM"] =
            [i \in 1..Len(@) |->
               IF own(@[i]) THEN st.inventories["XLM"][i] ELSE @[i]]]
    ELSE st

\* FeeBranch that leaves the proceeds price to the market lookup
FeeBranch_MarketPriced(st, book, t) ==
  IF t.feeStroops # 0 /\ t.feeStroops > 0
    THEN dispose(st, book,
                 DisposeParams("XLM", t.feeStroops, t.date, t.transactionHash,
                               "network_fee", Undefined))
    ELSE st

\* after the ops of the TxRow: if (tx.feeStroops && tx.feeStroops > 0n)
FeeBranch(st, book, t) ==
  IF t.feeStroops # 0 /\ t.feeStroops > 0
    THEN dispose(st, book,
                 DisposeParams("XLM", t.feeStroops, t.date, t.transactionHash,
                               "network_fee", Set(0)))
    ELSE st

\* the inner loop is over: the fee, then back to the outer loop header
NetworkFee ==
  /\ pc = "ops"
  /\ Commit(FeeBranch(Current, priceBook, tx), "next")
  /\ op' = NoOp
  /\ UNCHANGED <<priceBook, tx, txCount, opCount>>

\* return { fills, endingBatches: inventories }
Return ==
  /\ pc = "next"
  /\ pc' = "returned"
  /\ UNCHANGED <<priceBook, inventories, batchSeq, fills, tx, op, txCount, opCount, error>>

\* a step of the one invocation of a run that calls computeFifoFills once
Once(step) ==
  /\ step
  /\ UNCHANGED <<txRows, invocation, firstResult>>
  /\ UNCHANGED <<ledgerVars, unitsVars>>

Next ==
  \/ Once(BeginTx)
  \/ Once(OpCreateAccount)
  \/ Once(OpPaymentIn)
  \/ Once(OpPaymentOut)
  \/ Once(OpSwap)
  \/ Once(OpBlendDeposit)
  \/ Once(OpBlendWithdraw)
  \/ Once(OpSwapFee)
  \/ Once(OpSellOffer)
  \/ Once(OpUnhandled)
  \/ Once(NetworkFee)
  \/ Once(Return)

Spec == Init /\ [][Next]_vars

(* --------- computeFifoFills called twice with the same arguments ------- *)

\* the step dispatches one op (op' is that op)
IsOpStep == opCount' = opCount + 1

\* the step takes the next TxRow (tx' is that row)
IsRowStep == pc = "next" /\ pc' = "ops"

\* the step is the code after the inner loop (the network fee)
IsFeeStep == pc = "ops" /\ opCount' = opCount /\ pc' # "ops"

\* ops the current invocation has taken from the rows before the current one
RECURSIVE OpsOfRows(_, _)
OpsOfRows(rows, n) ==
  IF n = 0 THEN 0 ELSE Len(rows[n].ops) + OpsOfRows(rows, n - 1)

\* the first invocation reads its argument: what it reads is the list
Reads ==
  /\ opCount' <= MaxOpsTwice
  /\ txRows' =
       IF IsRowStep
         THEN Append(txRows, [transactionHash |-> tx'.transactionHash,
                              date |-> tx'.date,
                              feeStroops |-> tx'.feeStroops,
                              ops |-> <<>>])
       ELSE IF IsOpStep
         THEN [txRows EXCEPT ![Len(txRows)].ops = Append(@, op')]
         ELSE txRows

\* the second invocation reads the same list
ReadsAgain ==
  /\ IF IsRowStep
       THEN /\ txCount < Len(txRows)
            /\ tx' = [transactionHash |-> txRows[txCount'].transactionHash,
                      date |-> txRows[txCount'].date,
                      feeStroops |-> txRows[txCount'].feeStroops]
     ELSE IF IsOpStep
       THEN LET k == opCount' - OpsOfRows(txRows, txCount - 1)
            IN /\ k <= Len(txRows[txCount].ops)
               /\ op' = txRows[txCount].ops[k]
     ELSE IF IsFeeStep
       THEN opCount - OpsOfRows(txRows, txCount - 1) = Len(txRows[txCount].ops)
       ELSE txCount = Len(txRows)
  /\ UNCHANGED txRows

\* what the inner loop finds next in the list: the op at the current
\* position, NoOp at the end of the row's ops
NextOp ==
  IF invocation = 1
    THEN IF opCount >= MaxOpsTwice THEN op' = NoOp ELSE TRUE
    ELSE LET k == opCount + 1 - OpsOfRows(txRows, txCount - 1)
         IN IF k <= Len(txRows[txCount].ops) THEN op' = txRows[txCount].ops[k]
                                              ELSE op' = NoOp

\* a step of one of the two invocations
Twice(step) ==
  /\ pc = "ops" => NextOp
  /\ step
  /\ IF invocation = 1 THEN Reads ELSE ReadsAgain
  /\ UNCHANGED <<invocation, firstResult>>
  /\ UNCHANGED <<ledgerVars, unitsVars>>

\* what an invocation that has ended hands to its caller
Outcome ==
  IF pc = "returned"
    THEN [pc |-> "returned", fills |-> fills, endingBatches |-> inventories]
    ELSE [pc |-> "threw", error |-> error]

\* the first invocation has ended; computeFifoFills is entered again with
\* the same txRows and priceBook, and builds its inventories, counters and
\* fills anew
Invoke ==
  /\ invocation = 1
  /\ pc \in {"returned", "threw"}
  /\ firstResult' = Outcome
  /\ invocation' = 2
  /\ inventories' = NewInventories
  /\ batchSeq' = NewBatchSeq(batchSeq)
  /\ fills' = <<>>
  /\ tx' = [transactionHash |-> <<>>, date |-> 0, feeStroops |-> 0]
  /\ op' = NoOp
  /\ txCount' = 0
  /\ opCount' = 0
  /\ pc' = "next"
  /\ error' = NoError
  /\ UNCHANGED <<priceBook, txRows>>
  /\ UNCHANGED <<ledgerVars, unitsVars>>

NextTwice ==
  \/ Twice(BeginTx)
  \/ Twice(OpCreateAccount)
  \/ Twice(OpPaymentIn)
  \/ Twice(OpPaymentOut)
  \/ Twice(OpSwap)
  \/ Twice(OpBlendDeposit)
  \/ Twice(OpBlendWithdraw)
  \/ Twice(OpSwapFee)
  \/ Twice(OpSellOffer)
  \/ Twice(OpUnhandled)
  \/ Twice(NetworkFee)
  \/ Twice(Return)
  \/ Invoke

SpecTwice == Init /\ [][NextTwice]_vars

(* ------------- domain/units.ts: a function called on its own ---------- *)

\* computeFifoFills is not running
NoFifo ==
  /\ priceBook = Restrict(FullBook, {})
  /\ inventories = NewInventories
  /\ batchSeq = NewBatchSeq([XLM |-> 0, USDC |-> 0])
  /\ fills = <<>>
  /\ invocation = 1
  /\ firstResult = NoResult

\* no loop over transactions has begun
NoLoop ==
  /\ tx = [transactionHash |-> <<>>, date |-> 0, feeStroops |-> 0]
  /\ op = NoOp
  /\ txCount = 0
  /\ opCount = 0
  /\ pc = "next"
  /\ error = NoError
  /\ txRows = <<>>

\* a fraction of len digits: the digit lead, then the digit rest repeated
FractionOf(len, lead, rest) ==
  [i \in 1..len |-> IF i = 1 THEN lead ELSE rest]

Fractions ==
  {FractionOf(len, lead, rest) :
     len \in 0..MaxFractionDigits, lead \in {"0", "1", "9"}, rest \in {"0", "9"}}

IntegerParts == {<<>>, <<"0">>, <<"7">>, <<"2", "1">>}

\* amounts written with a decimal point, as Horizon does ("21.1999999")
DecimalStrings == {i \o <<".">> \o f : i \in IntegerParts, f \in Fractions}

\* amounts written without a decimal point, as fees are ("100")
IntegerStrings ==
  {<<"0">>, <<"7">>, <<"2", "1">>, <<"1", "0", "0">>,
   <<"1", "2", "3", "4", "5", "6", "7", "8", "9">>}

\* strings that are no plain amounts: commas, a second point, a sign, a letter,
\* the empty string
OtherStrings ==
  {<<>>, <<"1", ",", "5">>, <<"1", ",", "0", ".", "5">>, <<"1", ",", "0", ",", "0">>,
   <<"1", ".", "2", ".", "3">>, <<"-", "1", ".", "5">>, <<"-", "3">>, <<"a">>}

ToStroopsCalls ==
  {[fn |-> "toStroops", raw |-> r] :
     r \in DecimalStrings \cup IntegerStrings \cup OtherStrings}

\* quantities around the rounding points of 10^7 and their negatives
StroopQuantities ==
  LET q == {0, 1, 2499999, 2500000, 2500001, 4999999, 5000000, 7500000, 12500000}
  IN q \cup {-x : x \in q}

PricesMicro == {0, 1, 2, 3, 30, 100}

ValueCentsCalls ==
  {[fn |-> "valueCentsFromStroops", amountStroops |-> q, priceMicro |-> p] :
     q \in StroopQuantities, p \in PricesMicro}

\* what a call hands back: the value returned or the Error thrown
Returned(r) == [returned |-> TRUE, error |-> r.error, value |-> r.value]

InitUnits ==
  /\ NoFifo
  /\ NoLoop
  /\ NoLedger
  /\ args \in ToStroopsCalls \cup ValueCentsCalls
  /\ result = NotReturned

CallToStroops ==
  /\ args.fn = "toStroops"
  /\ ~result.returned
  /\ result' = Returned(toStroops(args.raw))
  /\ UNCHANGED <<priceBook, inventories, batchSeq, fills, tx, op, txCount, opCount,
                 pc, error, txRows, invocation, firstResult, ledgerVars, args>>

CallValueCentsFromStroops ==
  /\ args.fn = "valueCentsFromStroops"
  /\ ~result.returned
  /\ result' = Returned(Value(valueCentsFromStroops(args.amountStroops, args.priceMicro)))
  /\ UNCHANGED <<priceBook, inventories, batchSeq, fills, tx, op, txCount, opCount,
                 pc, error, txRows, invocation, firstResult, ledgerVars, args>>

NextUnits ==
  \/ CallToStroops
  \/ CallValueCentsFromStroops

SpecUnits == InitUnits /\ [][NextUnits]_vars

(* ------------ processTransactions (stellar/process-transactions) ------ *)

\* argument walletAddress, and the accounts of the records
walletAddress == "GC7"

Accounts == {walletAddress, "GAZ"}

\* asset_type / asset_code of the records: the three supported assets, an
\* asset with another code, a credit asset without a code
Asset(assetType, assetCode) == [asset_type |-> assetType, asset_code |-> assetCode]

Assets ==
  {Asset("native", Undefined),
   Asset("credit_alphanum4", Set("USDC")),
   Asset("credit_alphanum4", Set("EURC")),
   Asset("credit_alphanum4", Set("BTC")),
   Asset("credit_alphanum4", Undefined)}

Native == Asset("native", Undefined)

Credit4(code) == Asset("credit_alphanum4", Set(code))

\* source and destination asset of the path payments
PathPairs ==
  {<<Native, Credit4("USDC")>>, <<Credit4("USDC"), Credit4("EURC")>>,
   <<Credit4("USDC"), Credit4("USDC")>>, <<Credit4("BTC"), Credit4("USDC")>>,
   <<Native, Credit4("BTC")>>, <<Asset("credit_alphanum4", Undefined), Credit4("USDC")>>}

\* selling and buying asset of the sell offers
OfferPairs ==
  {<<Native, Credit4("USDC")>>, <<Credit4("USDC"), Native>>,
   <<Credit4("BTC"), Credit4("USDC")>>, <<Native, Asset("credit_alphanum4", Undefined)>>}

\* amount strings of the records: "0.5" and "1.250000009"
AmountStrings ==
  {<<"0", ".", "5">>, <<"1", ".", "2", "5", "0", "0", "0", "0", "0", "0", "9">>}

\* fee_charged of the transaction records: "0" and "100"
FeeStrings == {<<"0">>, <<"1", "0", "0">>}

\* the mutable state of the function within one iteration
Ledger(bal, ops, err) == [balances |-> bal, rowOps |-> ops, error |-> err]

MixedBigInt == [name |-> "TypeError", text |-> "Cannot mix BigInt and other types"]

UndefinedProperty == [name |-> "TypeError", text |-> "Cannot read properties of undefined"]

NotATransfer == [name |-> "Error", text |-> "Expected balance change to be a transfer"]

NoTradesFound == [name |-> "Error", text |-> "No trades found for the sale offer"]

UnknownOperationType(type) ==
  [name |-> "Error", text |-> "Unknown operation type", type |-> type]

\* rowOps.push(summary)
Push(st, summary) == [st EXCEPT !.rowOps = Append(@, summary)]

\* balances[currency] += amount; with a currency that is no key of balances
\* the left operand is undefined and the bigint addition throws
Credit(st, currency, amount) ==
  IF currency \notin DOMAIN st.balances THEN Throw(st, MixedBigInt)
  ELSE [st EXCEPT !.balances[currency] = @ + amount]

\* balances[currency] -= amount
Debit(st, currency, amount) ==
  IF currency \notin DOMAIN st.balances THEN Throw(st, MixedBigInt)
  ELSE [st EXCEPT !.balances[currency] = @ - amount]

CreateAccountBranch(st, o) ==
  LET amountStroops == toStroops(o.starting_balance)
  IN IF Failed(amountStroops) THEN Throw(st, amountStroops.error)
     ELSE [Push(st, [kind |-> "create_account", from |-> o.funder,
                     to |-> walletAddress, amountStroops |-> amountStroops.value])
             EXCEPT !.balances.XLM = amountStroops.value]

PaymentBranch(st, o) ==
  LET currency == toCurrency(o.asset_type, o.asset_code)
      amount == toStroops(o.amount)
  IN IF Failed(currency) THEN Throw(st, currency.error)
     ELSE IF Failed(amount) THEN Throw(st, amount.error)
     ELSE IF o.to = walletAddress
       THEN Credit(Push(st, [kind |-> "payment", direction |-> "in",
                             from |-> o.from, to |-> o.to,
                             currency |-> currency.value,
                             amountStroops |-> amount.value]),
                   currency.value, amount.value)
       ELSE Debit(Push(st, [kind |-> "payment", direction |-> "out",
                            from |-> o.from, to |-> o.to,
                            currency |-> currency.value,
                            amountStroops |-> amount.value]),
                  currency.value, amount.value)

\* PathPaymentBranch that credits the destination with the source amount
PathPaymentBranch_SameAmount(st, o) ==
  LET sourceCurrency == toCurrency(o.source_asset_type, o.source_asset_code)
      sourceAmountStroops == toStroops(o.source_amount)
  IN IF Failed(sourceCurrency) THEN Throw(st, sourceCurrency.error)
     ELSE IF Failed(sourceAmountStroops) THEN Throw(st, sourceAmountStroops.error)
     ELSE IF o.to = walletAddress
       THEN
         LET destinationCurrency == toCurrency(o.asset_type, o.asset_code)
             destinationAmountStroops == toStroops(o.amount)
         IN IF Failed(destinationCurrency) THEN Throw(st, destinationCurrency.error)
            ELSE IF Failed(destinationAmountStroops)
              THEN Throw(st, destinationAmountStroops.error)
            ELSE
              LET pushed ==
                    Push(st, [kind |-> "swap",
                              sourceCurrency |-> sourceCurrency.value,
                              sourceAmountStroops |-> sourceAmountStroops.value,
                              destinationCurrency |-> destinationCurrency.value,
                              destinationAmountStroops |-> destinationAmountStroops.value])
                  debited == Debit(pushed, sourceCurrency.value, sourceAmountStroops.value)
              IN IF Failed(debited) THEN debited
                 ELSE Credit(debited, destinationCurrency.value,
                             sourceAmountStroops.value)
       ELSE Debit(Push(st, [kind |-> "swap_fee", from |-> o.from, to |-> o.to,
                            currency |-> sourceCurrency.value,
                            amountStroops |-> sourceAmountStroops.value]),
                  sourceCurrency.value, sourceAmountStroops.value)

PathPaymentBranch(st, o) ==
  LET sourceCurrency == toCurrency(o.source_asset_type, o.source_asset_code)
      sourceAmountStroops == toStroops(o.source_amount)
  IN IF Failed(sourceCurrency) THEN Throw(st, sourceCurrency.error)
     ELSE IF Failed(sourceAmountStroops) THEN Throw(st, sourceAmountStroops.error)
     ELSE IF o.to = walletAddress
       THEN
         LET destinationCurrency == toCurrency(o.asset_type, o.asset_code)
             destinationAmountStroops == toStroops(o.amount)
         IN IF Failed(destinationCurrency) THEN Throw(st, destinationCurrency.error)
            ELSE IF Failed(destinationAmountStroops)
              THEN Throw(st, destinationAmountStroops.error)
            ELSE
              LET pushed ==
                    Push(st, [kind |-> "swap",
                              sourceCurrency |-> sourceCurrency.value,
                              sourceAmountStroops |-> sourceAmountStroops.value,
                              destinationCurrency |-> destinationCurrency.value,
                              destinationAmountStroops |-> destinationAmountStroops.value])
                  debited == Debit(pushed, sourceCurrency.value, sourceAmountStroops.value)
              IN IF Failed(debited) THEN debited
                 ELSE Credit(debited, destinationCurrency.value,
                             destinationAmountStroops.value)
       ELSE Debit(Push(st, [kind |-> "swap_fee", from |-> o.from, to |-> o.to,
                            currency |-> sourceCurrency.value,
                            amountStroops |-> sourceAmountStroops.value]),
                  sourceCurrency.value, sourceAmountStroops.value)

HostFunctionBranch(st, o) ==
  IF Len(o.asset_balance_changes) = 0 THEN Throw(st, UndefinedProperty)
  ELSE
    LET balanceChange == o.asset_balance_changes[1]
    IN IF balanceChange.type # "transfer" THEN Throw(st, NotATransfer)
       ELSE
         LET currency == toCurrency(balanceChange.asset_type, balanceChange.asset_code)
             amount == toStroops(balanceChange.amount)
         IN IF Failed(currency) THEN Throw(st, currency.error)
            ELSE IF Failed(amount) THEN Throw(st, amount.error)
            ELSE IF balanceChange.from = walletAddress
              THEN Debit(Push(st, [kind |-> "blend_deposit",
                                   from |-> balanceChange.from, to |-> balanceChange.to,
                                   currency |-> currency.value,
                                   amountStroops |-> amount.value]),
                         currency.value, amount.value)
              ELSE Credit(Push(st, [kind |-> "blend_withdraw",
                                    from |-> balanceChange.from, to |-> balanceChange.to,
                                    currency |-> currency.value,
                                    amountStroops |-> amount.value]),
                          currency.value, amount.value)

ChangeTrustBranch(st, o) ==
  LET currency == toCurrency(o.asset_type, o.asset_code)
  IN IF Failed(currency) THEN Throw(st, currency.error)
     ELSE Push(st, [kind |-> "change_trust", currency |-> currency.value])

ClaimableBalanceBranch(st, o) ==
  Push(st, [kind |-> "create_claimable_balance", amount |-> o.amount,
            currency |-> o.asset])

\* trades.reduce(([a, b], trade) => [a += toStroops(trade.base_amount),
\*                                   b += toStroops(trade.counter_amount)], [0n, 0n])
RECURSIVE TotalAmounts(_)
TotalAmounts(list) ==
  IF Len(list) = 0 THEN Value(<<0, 0>>)
  ELSE LET before == TotalAmounts(SubSeq(list, 1, Len(list) - 1))
           trade == list[Len(list)]
           base == toStroops(trade.base_amount)
           counter == toStroops(trade.counter_amount)
       IN IF Failed(before) THEN before
          ELSE IF Failed(base) THEN base
          ELSE IF Failed(counter) THEN counter
          ELSE Value(<<before.value[1] + base.value, before.value[2] + counter.value>>)

SellOfferBranch(st, o, tr) ==
  LET sourceCurrency == toCurrency(o.selling_asset_type, o.selling_asset_code)
      destinationCurrency == toCurrency(o.buying_asset_type, o.buying_asset_code)
  IN IF Failed(sourceCurrency) THEN Throw(st, sourceCurrency.error)
     ELSE IF Failed(destinationCurrency) THEN Throw(st, destinationCurrency.error)
     ELSE IF IsUndefined(tr) \/ Len(tr[1]) = 0 THEN Throw(st, NoTradesFound)
     ELSE
       LET firstTrade == tr[1][1]
           isBase == firstTrade.base_account = walletAddress
           totals == TotalAmounts(tr[1])
       IN IF Failed(totals) THEN Throw(st, totals.error)
          ELSE
            LET sourceAmountStroops == IF isBase THEN totals.value[1] ELSE totals.value[2]
                destinationAmountStroops ==
                  IF isBase THEN totals.value[2] ELSE totals.value[1]
                pushed ==
                  Push(st, [kind |-> "sell_offer",
                            sourceCurrency |-> sourceCurrency.value,
                            sourceAmountStroops |-> sourceAmountStroops,
                            destinationCurrency |-> destinationCurrency.value,
                            destinationAmountStroops |-> destinationAmountStroops])
                debited == Debit(pushed, sourceCurrency.value, sourceAmountStroops)
            IN IF Failed(debited) THEN debited
               ELSE Credit(debited, destinationCurrency.value, destinationAmountStroops)

\* fee that is charged to the wallet whoever paid it
Fee_AnyPayer(t) == BigInt(t.fee_charged)

\* const fee = tx.fee_account === walletAddress ? BigInt(tx.fee_charged) : 0n
Fee(t) ==
  IF t.fee_account = walletAddress THEN BigInt(t.fee_charged) ELSE Value(0)

\* Snapshots whose balances are the one balances object, not copies of it
Snapshots_Shared(rows, bal) ==
  [i \in 1..Len(rows) |-> [rows[i] EXCEPT !.balances = bal]]

\* balances: structuredClone(balances): the rows pushed earlier hold copies,
\* which later changes of balances do not reach
Snapshots(rows, bal) == rows

InitLedger ==
  /\ NoFifo
  /\ NoUnits
  /\ NoLoop
  /\ NoLedger

CurrentLedger == Ledger(balances, rowOps, error)

\* the state after the statements of a branch ended in st
CommitLedger(st, pcNext) ==
  /\ balances' = st.balances
  /\ rowOps' = st.rowOps
  /\ error' = st.error
  /\ txRows' = Snapshots(txRows, st.balances)
  /\ pc' = IF Failed(st) THEN "threw" ELSE pcNext

\* for (const { tx, ops, trades } of transactions): the next transaction
BeginTransaction ==
  /\ pc = "next"
  /\ txCount < MaxLedgerTx
  /\ \E fee_charged \in FeeStrings, fee_account \in Accounts :
       tx' = [hash |-> TxHash(txCount + 1), created_at |-> (txCount + 1) * DAY_IN_MS,
              fee_charged |-> fee_charged, fee_account |-> fee_account]
  /\ trades' = Unread
  /\ rowOps' = <<>>
  /\ op' = NoOp
  /\ txCount' = txCount + 1
  /\ pc' = "ops"
  /\ UNCHANGED <<balances, txRows, opCount, error>>

\* for (const op of ops): one more operation record of the transaction
TakeRecord(o) ==
  /\ pc = "ops"
  /\ opCount < MaxLedgerOps
  /\ opCount' = opCount + 1
  /\ op' = o
  /\ UNCHANGED <<tx, txCount>>

RecCreateAccount ==
  \E starting_balance \in AmountStrings, funder \in Accounts :
    LET o == [type |-> "create_account", starting_balance |-> starting_balance,
              funder |-> funder]
    IN /\ TakeRecord(o)
       /\ CommitLedger(CreateAccountBranch(CurrentLedger, o), "ops")
       /\ UNCHANGED trades

RecPayment ==
  \E asset \in Assets \ {Credit4("EURC")}, from \in Accounts, to \in Accounts,
     amount \in AmountStrings :
    LET o == [type |-> "payment", asset_type |-> asset.asset_type,
              asset_code |-> asset.asset_code, from |-> from, to |-> to,
              amount |-> amount]
    IN /\ from = walletAddress \/ to = walletAddress
       /\ TakeRecord(o)
       /\ CommitLedger(PaymentBranch(CurrentLedger, o), "ops")
       /\ UNCHANGED trades

RecPathPayment ==
  \E type \in {"path_payment_strict_send", "path_payment_strict_receive"},
     pair \in PathPairs, to \in Accounts, amount \in AmountStrings :
    LET o == [type |-> type,
              source_asset_type |-> pair[1].asset_type,
              source_asset_code |-> pair[1].asset_code,
              source_amount |->
                IF type = "path_payment_strict_send"
                  THEN <<"1", ".", "2", "5", "0", "0", "0", "0", "0", "0", "9">>
                  ELSE <<"0", ".", "5">>,
              asset_type |-> pair[2].asset_type, asset_code |-> pair[2].asset_code,
              amount |-> amount, from |-> walletAddress, to |-> to]
    IN /\ type = "path_payment_strict_receive" => amount = <<"0", ".", "5">>
       /\ TakeRecord(o)
       /\ CommitLedger(PathPaymentBranch(CurrentLedger, o), "ops")
       /\ UNCHANGED trades

RecInvokeHostFunction ==
  \E type \in {"transfer", "mint"},
     asset \in {Credit4("USDC"), Credit4("EURC"), Credit4("BTC")},
     from \in Accounts, n \in 0..1 :
    LET change == [type |-> type, asset_type |-> asset.asset_type,
                   asset_code |-> asset.asset_code, from |-> from,
                   to |-> IF from = walletAddress THEN "GAZ" ELSE walletAddress,
                   amount |-> <<"0", ".", "5">>]
        o == [type |-> "invoke_host_function",
              asset_balance_changes |-> IF n = 0 THEN <<>> ELSE <<change>>]
    IN /\ type = "mint" \/ n = 0 => asset = Credit4("USDC") /\ from = walletAddress
       /\ n = 0 => type = "transfer"
       /\ TakeRecord(o)
       /\ CommitLedger(HostFunctionBranch(CurrentLedger, o), "ops")
       /\ UNCHANGED trades

RecChangeTrust ==
  \E asset \in Assets :
    LET o == [type |-> "change_trust", asset_type |-> asset.asset_type,
              asset_code |-> asset.asset_code]
    IN /\ TakeRecord(o)
       /\ CommitLedger(ChangeTrustBranch(CurrentLedger, o), "ops")
       /\ UNCHANGED trades

\* set_options, begin_sponsoring_future_reserves, end_sponsoring_future_reserves:
\* recorded by kind only
RecKindOnly ==
  \E type \in {"set_options", "begin_sponsoring_future_reserves",
               "end_sponsoring_future_reserves"} :
    /\ TakeRecord([type |-> type])
    /\ CommitLedger(Push(CurrentLedger, [kind |-> type]), "ops")
    /\ UNCHANGED trades

RecCreateClaimableBalance ==
  \E asset \in {"native", "BTC:GAZ"} :
    LET o == [type |-> "create_claimable_balance", amount |-> <<"0", ".", "5">>,
              asset |-> asset]
    IN /\ TakeRecord(o)
       /\ CommitLedger(ClaimableBalanceBranch(CurrentLedger, o), "ops")
       /\ UNCHANGED trades

\* the trades of a transaction: none fetched, an empty list, trades with the
\* wallet as base account or as counter account
Trade(baseAccount, baseAmount, counterAmount) ==
  [base_account |-> baseAccount, base_amount |-> baseAmount,
   counter_amount |-> counterAmount]

TradeLists ==
  LET half == <<"0", ".", "5">>
      more == <<"1", ".", "2", "5", "0", "0", "0", "0", "0", "0", "9">>
  IN {Undefined,
      Set(<<>>),
      Set(<<Trade(walletAddress, more, half)>>),
      Set(<<Trade("GAZ", half, more)>>),
      Set(<<Trade(walletAddress, more, half), Trade(walletAddress, half, half)>>)}

\* the trades are read when a manage_sell_offer branch first needs them
RecManageSellOffer ==
  \E pair \in OfferPairs, tr \in TradeLists :
    LET o == [type |-> "manage_sell_offer",
              selling_asset_type |-> pair[1].asset_type,
              selling_asset_code |-> pair[1].asset_code,
              buying_asset_type |-> pair[2].asset_type,
              buying_asset_code |-> pair[2].asset_code]
    IN /\ trades = Unread \/ trades = [read |-> TRUE, list |-> tr]
       /\ trades' = [read |-> TRUE, list |-> tr]
       /\ TakeRecord(o)
       /\ CommitLedger(SellOfferBranch(CurrentLedger, o, tr), "ops")

RecUnknown ==
  \E type \in {"account_merge"} :
    /\ TakeRecord([type |-> type])
    /\ CommitLedger(Throw(CurrentLedger, UnknownOperationType(type)), "ops")
    /\ UNCHANGED trades

\* after the inner loop: the fee, then txRows.push of the snapshot (the
\* horizonRaw field, the input echoed, is left out of the row)
FeeAndSnapshot ==
  /\ pc = "ops"
  /\ LET f == Fee(tx)
     IN IF Failed(f)
          THEN /\ error' = f.error
               /\ pc' = "threw"
               /\ UNCHANGED <<balances, txRows>>
          ELSE LET after == IF f.value > 0 THEN [balances EXCEPT !.XLM = @ - f.value]
                                           ELSE balances
               IN /\ balances' = after
                  /\ txRows' = Append(Snapshots(txRows, after),
                                      [transactionHash |-> tx.hash,
                                       date |-> tx.created_at,
                                       feeStroops |-> f.value,
                                       ops |-> rowOps,
                                       balances |-> after])
                  /\ pc' = "next"
                  /\ error' = error
  /\ UNCHANGED <<tx, op, txCount, opCount, rowOps, trades>>

\* return txRows
ReturnRows ==
  /\ pc = "next"
  /\ pc' = "returned"
  /\ UNCHANGED <<tx, op, txCount, opCount, error, txRows, balances, rowOps, trades>>

\* a step of processTransactions
Build(step) ==
  /\ step
  /\ UNCHANGED <<priceBook, inventories, batchSeq, fills, invocation, firstResult>>
  /\ UNCHANGED unitsVars

NextLedger ==
  \/ Build(BeginTransaction)
  \/ Build(RecCreateAccount)
  \/ Build(RecPayment)
  \/ Build(RecPathPayment)
  \/ Build(RecInvokeHostFunction)
  \/ Build(RecChangeTrust)
  \/ Build(RecKindOnly)
  \/ Build(RecCreateClaimableBalance)
  \/ Build(RecManageSellOffer)
  \/ Build(RecUnknown)
  \/ Build(FeeAndSnapshot)
  \/ Build(ReturnRows)

SpecLedger == InitLedger /\ [][NextLedger]_vars

(* ------------- dispose: the while loop, one iteration per step --------- *)

\* one iteration of the while loop of dispose over an XLM / USDC inventory:
\* the engine state and the quantity still requested after it
WhileBody(st, params, disposalPrice, remaining) ==
  LET inv == st.inventories[params.currency]
      i == FindLot(inv)
  IN IF i = 0
       THEN [st |-> Throw(st, FifoUnderflow(params, remaining)),
             remaining |-> remaining]
       ELSE
         LET lot == inv[i]
             take == Slice(remaining, lot)
         IN [st |-> [st EXCEPT
                       !.fills = Append(@, FifoFill(params, lot, take, disposalPrice)),
                       !.inventories[params.currency][i].qtyRemainingStroops = @ - take],
             remaining |-> remaining - take]

\* a dispose call that has reached its while loop: its parameters and locals,
\* the number of iterations begun so far, and where the caller continues
InLoop(params, disposalPrice, remaining, iterations, returnTo) ==
  [fn |-> "dispose", params |-> params, disposalPrice |-> disposalPrice,
   remaining |-> remaining, iterations |-> iterations, returnTo |-> returnTo]

\* dispose up to the loop header: a call that does not reach the loop (amount
\* 0n, EURC, missing price) is over in this step
StartDispose(params, returnTo) ==
  IF params.amountStroops = 0 \/ params.currency = "EURC"
    THEN /\ Commit(dispose(Current, priceBook, params), returnTo)
         /\ args' = NoCall
    ELSE
      LET disposalPrice ==
            IF IsUndefined(params.proceedsPriceMicro)
              THEN getPriceMicro(priceBook, params.currency, params.date)
              ELSE Value(params.proceedsPriceMicro[1])
      IN IF Failed(disposalPrice)
           THEN /\ Commit(Throw(Current, disposalPrice.error), returnTo)
                /\ args' = NoCall
           ELSE /\ pc' = "while"
                /\ args' = InLoop(params, disposalPrice.value, params.amountStroops,
                                  0, returnTo)
                /\ UNCHANGED <<inventories, batchSeq, fills, error>>

\* the outbound payment branch, up to the loop header
LoopPaymentOut ==
  \E currency \in Currency, amountStroops \in Amounts :
    /\ TakeOp([kind |-> "payment", direction |-> "out", currency |-> currency,
               amountStroops |-> amountStroops])
    /\ StartDispose(DisposeParams(currency, amountStroops, tx.date,
                                  tx.transactionHash, "payment_out", Undefined),
                    "ops")

\* the code after the inner loop, up to the loop header of the fee's disposal
LoopNetworkFee ==
  /\ pc = "ops"
  /\ IF tx.feeStroops # 0 /\ tx.feeStroops > 0
       THEN StartDispose(DisposeParams("XLM", tx.feeStroops, tx.date,
                                       tx.transactionHash, "network_fee", Set(0)),
                         "next")
       ELSE /\ pc' = "next"
            /\ UNCHANGED <<inventories, batchSeq, fills, error, args>>
  /\ op' = NoOp
  /\ UNCHANGED <<priceBook, tx, txCount, opCount>>

\* while (remaining > 0n) { ... }: one iteration
WhileIterate ==
  /\ pc = "while"
  /\ args.remaining > 0
  /\ LET after == WhileBody(Current, args.params, args.disposalPrice, args.remaining)
     IN /\ Commit(after.st, "while")
        /\ args' = [args EXCEPT !.remaining = after.remaining,
                                !.iterations = @ + 1]
  /\ UNCHANGED <<priceBook, tx, op, txCount, opCount>>

\* the loop condition is false: dispose returns to its caller
WhileExit ==
  /\ pc = "while"
  /\ ~(args.remaining > 0)
  /\ pc' = args.returnTo
  /\ args' = NoCall
  /\ UNCHANGED <<priceBook, inventories, batchSeq, fills, tx, op, txCount, opCount,
                 error>>

\* a step of an invocation whose disposals are followed through the loop
Stepwise(step) ==
  /\ step
  /\ UNCHANGED <<txRows, invocation, firstResult, ledgerVars, result>>

\* acquisitions by create_account and inbound payment, disposals by outbound
\* payment and network fee
NextLoop ==
  \/ Stepwise(BeginTx /\ UNCHANGED args)
  \/ Stepwise(OpCreateAccount /\ UNCHANGED args)
  \/ Stepwise(OpPaymentIn /\ UNCHANGED args)
  \/ Stepwise(LoopPaymentOut)
  \/ Stepwise(WhileIterate)
  \/ Stepwise(WhileExit)
  \/ Stepwise(LoopNetworkFee)
  \/ Stepwise(Return /\ UNCHANGED args)

\* the interpreter runs the function on until it returns or throws
SpecLoop == Init /\ [][NextLoop]_vars /\ WF_vars(NextLoop)

(* ----- main: processTransactions, then computeFifoFills on its rows ---- *)

\* the if-chain of the inner loop applied to one TxOpSummary of a TxRow; an
\* op of a kind without a branch changes nothing
Dispatch(st, book, t, o) ==
  IF o.kind = "create_account"
    THEN addBatch(st, book, "XLM", o.amountStroops, t.date, t.transactionHash,
                  "create_account")
  ELSE IF o.kind = "payment" /\ o.direction = "in"
    THEN addBatch(st, book, o.currency, o.amountStroops, t.date, t.transactionHash,
                  "payment_in")
  ELSE IF o.kind = "payment" /\ o.direction = "out"
    THEN dispose(st, book,
                 DisposeParams(o.currency, o.amountStroops, t.date,
                               t.transactionHash, "payment_out", Undefined))
  ELSE IF o.kind = "swap"
    THEN SwapBranch(st, book, t, o)
  ELSE IF o.kind = "blend_deposit"
    THEN dispose(st, book,
                 DisposeParams(o.currency, o.amountStroops, t.date,
                               t.transactionHash, "blend_deposit", Undefined))
  ELSE IF o.kind = "blend_withdraw"
    THEN addBatch(st, book, o.currency, o.amountStroops, t.date, t.transactionHash,
                  "blend_withdraw")
  ELSE IF o.kind = "swap_fee"
    THEN dispose(st, book,
                 DisposeParams(o.currency, o.amountStroops, t.date,
                               t.transactionHash, "swap_fee", Set(0)))
  ELSE st

\* the price book built for the rows: a price for XLM and USDC on every day
\* a transaction can be dated
PipelineBook ==
  [k \in {priceKey(c, d) : c \in {"XLM", "USDC"}, d \in 1..MaxLedgerTx} |->
     [priceMicroEur |-> MarketPrice(k[1], k[2])]]

\* computeFifoFills is the function running
FifoRunning == [fn |-> "computeFifoFills"]

\* processTransactions has returned its rows: the price book is built and
\* computeFifoFills is entered with the rows
CallComputeFifoFills ==
  /\ args = NoCall
  /\ pc = "returned"
  /\ args' = FifoRunning
  /\ priceBook' = PipelineBook
  /\ tx' = [transactionHash |-> <<>>, date |-> 0, feeStroops |-> 0]
  /\ op' = NoOp
  /\ txCount' = 0
  /\ opCount' = 0
  /\ pc' = "next"
  /\ UNCHANGED <<inventories, batchSeq, fills, error, txRows, invocation, firstResult,
                 ledgerVars, result>>

\* position in the current row's ops of the op the inner loop takes next
NextIndex == opCount + 1 - OpsOfRows(txRows, txCount - 1)

\* for (const tx of txRows)
RowBegin ==
  /\ pc = "next"
  /\ txCount < Len(txRows)
  /\ tx' = [transactionHash |-> txRows[txCount + 1].transactionHash,
            date |-> txRows[txCount + 1].date,
            feeStroops |-> txRows[txCount + 1].feeStroops]
  /\ op' = NoOp
  /\ txCount' = txCount + 1
  /\ pc' = "ops"
  /\ UNCHANGED <<priceBook, inventories, batchSeq, fills, opCount, error>>

\* for (const op of tx.ops): the next op of the row, dispatched
RowOp ==
  /\ pc = "ops"
  /\ NextIndex <= Len(txRows[txCount].ops)
  /\ op' = txRows[txCount].ops[NextIndex]
  /\ opCount' = opCount + 1
  /\ Commit(Dispatch(Current, priceBook, tx, txRows[txCount].ops[NextIndex]), "ops")
  /\ UNCHANGED <<priceBook, tx, txCount>>

\* the row has no more ops: the network fee
RowFee ==
  /\ pc = "ops"
  /\ NextIndex > Len(txRows[txCount].ops)
  /\ NetworkFee

\* the list has no more rows: return
RowsDone ==
  /\ txCount = Len(txRows)
  /\ Return

\* a step of processTransactions in main
Building(step) ==
  /\ args = NoCall
  /\ Build(step)

\* a step of computeFifoFills in main
Replaying(step) ==
  /\ args = FifoRunning
  /\ step
  /\ UNCHANGED <<txRows, invocation, firstResult, ledgerVars, unitsVars>>

NextMain ==
  \/ Building(BeginTransaction)
  \/ Building(RecCreateAccount)
  \/ Building(RecPayment)
  \/ Building(RecPathPayment)
  \/ Building(RecInvokeHostFunction)
  \/ Building(RecChangeTrust)
  \/ Building(RecKindOnly)
  \/ Building(RecCreateClaimableBalance)
  \/ Building(RecManageSellOffer)
  \/ Building(RecUnknown)
  \/ Building(FeeAndSnapshot)
  \/ Building(ReturnRows)
  \/ CallComputeFifoFills
  \/ Replaying(RowBegin)
  \/ Replaying(RowOp)
  \/ Replaying(RowFee)
  \/ Replaying(RowsDone)

SpecMain == InitLedger /\ [][NextMain]_vars

(* ------------------- export/fifo-csv.ts: buildEventsCsv ---------------- *)

\* collation rank of the parts of the strings compared: currency codes, and
\* the parts of a batch id
Rank(part) ==
  IF part \in Digits THEN DigitValue(part)
  ELSE CASE part = "#" -> 0
         [] part = "EURC" -> 1
         [] part = "PAR" -> 2
         [] part = "USDC" -> 3
         [] part = "XLM" -> 4

\* a.localeCompare(b): negative, 0 or positive
RECURSIVE localeCompare(_, _)
localeCompare(a, b) ==
  IF a = <<>> /\ b = <<>> THEN 0
  ELSE IF a = <<>> THEN -1
  ELSE IF b = <<>> THEN 1
  ELSE IF Rank(Head(a)) # Rank(Head(b)) THEN Rank(Head(a)) - Rank(Head(b))
  ELSE localeCompare(Tail(a), Tail(b))

\* the events pushed for the batches (Object.entries order, the unused par
\* lot skipped), then for the fills
RECURSIVE EventsOf(_, _)
EventsOf(batchList, fs) ==
  IF batchList # <<>>
    THEN LET batch == Head(batchList)
         IN IF batch.batchId = <<"EURC", "#", "PAR">> /\ batch.qtyInitialStroops = 0
              THEN EventsOf(Tail(batchList), fs)
              ELSE <<[type |-> "acquisition", date |-> batch.acquiredAt,
                      batch |-> batch]>> \o EventsOf(Tail(batchList), fs)
  ELSE IF fs # <<>>
    THEN <<[type |-> "disposal", date |-> Head(fs).disposedAt, fill |-> Head(fs)]>>
           \o EventsOf(<<>>, Tail(fs))
  ELSE <<>>

\* the batch or fill of an event
Subject(e) == IF e.type = "acquisition" THEN e.batch ELSE e.fill

\* the comparator passed to events.sort
compareEvents(a, b) ==
  IF Subject(a).currency # Subject(b).currency
    THEN localeCompare(<<Subject(a).currency>>, <<Subject(b).currency>>)
    ELSE localeCompare(Subject(a).batchId, Subject(b).batchId)

\* Array.prototype.sort with a comparator: a stable sort
RECURSIVE sort(_)
sort(events) ==
  IF events = <<>> THEN <<>>
  ELSE LET n == Len(events)
           front == sort(SubSeq(events, 1, n - 1))
           last == events[n]
           keep == {i \in 1..Len(front) : compareEvents(front[i], last) <= 0}
           k == IF keep = {} THEN 0 ELSE CHOOSE i \in keep : \A j \in keep : j <= i
       IN SubSeq(front, 1, k) \o <<last>> \o SubSeq(front, k + 1, Len(front))

\* the rows for the sorted events from position i on: an event row each
\* (with the running balance of its batch), and a summary row with the final
\* balance after the last event of a currency
RECURSIVE RowsFrom(_, _, _, _)
RowsFrom(events, i, runningBalance, finalBalances) ==
  IF i > Len(events) THEN <<>>
  ELSE
    LET e == events[i]
        s == Subject(e)
        newBalance ==
          IF e.type = "acquisition" THEN s.qtyInitialStroops
          ELSE (IF s.batchId \in DOMAIN runningBalance
                  THEN runningBalance[s.batchId] ELSE 0) - s.amountStroops
        row == [Valuutta |-> s.currency,
                EraID |-> s.batchId,
                Tyyppi |-> IF e.type = "acquisition" THEN "Hankinta" ELSE "Luovutus",
                Hankintahetki |-> Set(toISOString(s.acquiredAt)),
                Luovutushetki |-> IF e.type = "acquisition" THEN Undefined
                                  ELSE Set(toISOString(s.disposedAt)),
                EraaJaljella |-> Set(newBalance),
                Loppusaldo |-> Undefined]
        summary == [Valuutta |-> "", EraID |-> <<>>, Tyyppi |-> "",
                    Hankintahetki |-> Undefined, Luovutushetki |-> Undefined,
                    EraaJaljella |-> Undefined,
                    Loppusaldo |-> Set(finalBalances[s.currency])]
        lastOfCurrency ==
          i = Len(events) \/ Subject(events[i + 1]).currency # s.currency
        balanceNow == [id \in DOMAIN runningBalance \cup {s.batchId} |->
                         IF id = s.batchId THEN newBalance ELSE runningBalance[id]]
    IN <<row>> \o (IF lastOfCurrency THEN <<summary>> ELSE <<>>)
         \o RowsFrom(events, i + 1, balanceNow, finalBalances)

\* the rows of the CSV (stringify writes them one per line after the header)
buildEventsCsv(batches, fs, rows) ==
  LET lastTx == rows[Len(rows)]
      events == EventsOf(batches.XLM \o batches.USDC \o batches.EURC, fs)
  IN RowsFrom(sort(events), 1, <<>>, lastTx.balances)

\* a batch and a fill of the calls, with the fields buildEventsCsv reads
CsvBatch(currency, n, acquiredAt) ==
  [batchId |-> <<currency, "#", "0", "0", "0", DigitChar(n)>>, currency |-> currency,
   acquiredAt |-> acquiredAt, qtyInitialStroops |-> 5000000]

CsvFill(batch, disposedAt) ==
  [batchId |-> batch.batchId, currency |-> batch.currency, amountStroops |-> 2500000,
   acquiredAt |-> batch.acquiredAt, disposedAt |-> disposedAt]

\* the calls: one or two XLM batches in either order, with or without a USDC
\* batch, an untouched par lot, and up to two fills of the first XLM batch,
\* in either order, none disposed before the batch was acquired
CsvCalls ==
  LET days == {DAY_IN_MS, 2 * DAY_IN_MS, 3 * DAY_IN_MS}
      second == {CsvBatch("XLM", 2, d) : d \in days}
      xlm(a) == {<<a>>} \cup {<<a, b>> : b \in second} \cup {<<b, a>> : b \in second}
      usdc == {<<>>, <<CsvBatch("USDC", 1, 2 * DAY_IN_MS)>>}
      later(a) == {d \in days : d >= a.acquiredAt}
      fillsOf(a) ==
        {<<>>} \cup {<<CsvFill(a, d)>> : d \in later(a)}
               \cup {<<CsvFill(a, d), CsvFill(a, e)>> : d \in later(a), e \in later(a)}
  IN UNION {{[fn |-> "buildEventsCsv",
              batches |-> [XLM |-> x, USDC |-> u, EURC |-> <<ParLot>>],
              fills |-> f,
              txRows |-> <<[balances |-> NewBalances]>>] :
               x \in xlm(a), u \in usdc, f \in fillsOf(a)} :
            a \in {CsvBatch("XLM", 1, d) : d \in days}}

InitCsv ==
  /\ NoFifo
  /\ NoLoop
  /\ NoLedger
  /\ args \in CsvCalls
  /\ result = NotReturned

CallBuildEventsCsv ==
  /\ args.fn = "buildEventsCsv"
  /\ result = NotReturned
  /\ result' = Returned(Value(buildEventsCsv(args.batches, args.fills, args.txRows)))
  /\ UNCHANGED <<priceBook, inventories, batchSeq, fills, tx, op, txCount, opCount, pc,
                 error, txRows, invocation, firstResult, ledgerVars, args>>

NextCsv == CallBuildEventsCsv

SpecCsv == InitCsv /\ [][NextCsv]_vars

(* ------------- stellar/horizon.ts: fetchTransactionsWithOps ----------- *)

\* the offer ids known by transaction hash (first hash of the table)
OfferTxHash == "448e8f032d02fe7d018d5f09761b5bac03bcace1b2c55277d91bd20be160744b"

offerIdByTxHash == [h \in {OfferTxHash} |-> "1799912560"]

\* the filter of fetchOperations: payments neither from nor to the wallet
\* and claimable balances with no claimant of the wallet are dropped
OpForWallet(wallet, o) ==
  IF o.type = "payment"
  THEN o.source_account = wallet \/ o.to = wallet
  ELSE IF o.type = "create_claimable_balance"
  THEN \E i \in 1..Len(o.claimants) : o.claimants[i].destination = wallet
  ELSE TRUE

\* fetchTransactions: the records of the pages, in order (the server's
\* records come as one last page, shorter than the page limit)
fetchTransactions(page) == page.records

\* fetchOperations: the records of the pages that pass the filter
fetchOperations(wallet, page) ==
  SelectSeq(page.records, LAMBDA o : OpForWallet(wallet, o))

\* opsByTxHash.get(hash) || []: the operations of the hash, in order
OpsOfTx(ops, hash) == SelectSeq(ops, LAMBDA o : o.transaction_hash = hash)

\* fetchTransactionsWithOps: one { tx, ops, trades } per transaction
fetchTransactionsWithOps(wallet, server) ==
  LET txs == fetchTransactions(server.transactions)
      ops == fetchOperations(wallet, server.operations)
  IN [i \in 1..Len(txs) |->
        [tx |-> txs[i],
         ops |-> OpsOfTx(ops, txs[i].hash),
         trades |-> IF txs[i].hash \in DOMAIN offerIdByTxHash
                    THEN <<server.trades[offerIdByTxHash[txs[i].hash]].records>>
                    ELSE Undefined]]

\* the operation records the server may hold for the account
HorizonOps ==
  LET hashes == {"tx1", OfferTxHash}
      others == {"OTHER_WALLET_1", "OTHER_WALLET_2"}
      payments == {[transaction_hash |-> h, type |-> "payment",
                    source_account |-> s, to |-> t] :
                     h \in hashes, s \in {walletAddress, "OTHER_WALLET_1"},
                     t \in {walletAddress, "OTHER_WALLET_2"}}
      claimable == {[transaction_hash |-> h, type |-> "create_claimable_balance",
                     claimants |-> c] :
                      h \in hashes,
                      c \in {<<[destination |-> "OTHER_WALLET_1"]>>,
                             <<[destination |-> walletAddress]>>,
                             <<[destination |-> "OTHER_WALLET_1"],
                               [destination |-> walletAddress]>>}}
      offers == {[transaction_hash |-> h, type |-> "manage_sell_offer"] : h \in hashes}
  IN payments \cup claimable \cup offers

\* the calls: one or two transactions, up to two operation records
HorizonCalls ==
  LET t(h) == [hash |-> h]
      txs == {<<t("tx1")>>, <<t(OfferTxHash)>>, <<t("tx1"), t(OfferTxHash)>>,
              <<t(OfferTxHash), t("tx1")>>}
      ops == {<<>>} \cup {<<a>> : a \in HorizonOps}
                    \cup {<<a, b>> : a \in HorizonOps, b \in HorizonOps}
      trs == {<<>>, <<[id |-> "trade1"]>>}
  IN {[fn |-> "fetchTransactionsWithOps",
       wallet |-> walletAddress,
       server |-> [transactions |-> [records |-> x],
                   operations |-> [records |-> o],
                   trades |-> [id \in {"1799912560"} |-> [records |-> r]]]] :
        x \in txs, o \in ops, r \in trs}

InitHorizon ==
  /\ NoFifo
  /\ NoLoop
  /\ NoLedger
  /\ args \in HorizonCalls
  /\ result = NotReturned

\* the promise of fetchTransactionsWithOps settles
CallFetchTransactionsWithOps ==
  /\ args.fn = "fetchTransactionsWithOps"
  /\ result = NotReturned
  /\ result' = Returned(Value(fetchTransactionsWithOps(args.wallet, args.server)))
  /\ UNCHANGED <<priceBook, inventories, batchSeq, fills, tx, op, txCount, opCount, pc,
                 error, txRows, invocation, firstResult, ledgerVars, args>>

NextHorizon == CallFetchTransactionsWithOps

SpecHorizon == InitHorizon /\ [][NextHorizon]_vars

(* ------------------------------ properties ---------------------------- *)

RECURSIVE SumInitial(_)
SumInitial(inv) ==
  IF inv = <<>> THEN 0 ELSE Head(inv).qtyInitialStroops + SumInitial(Tail(inv))

RECURSIVE SumRemaining(_)
SumRemaining(inv) ==
  IF inv = <<>> THEN 0 ELSE Head(inv).qtyRemainingStroops + SumRemaining(Tail(inv))

RECURSIVE SumAmount(_)
SumAmount(fs) ==
  IF fs = <<>> THEN 0 ELSE Head(fs).amountStroops + SumAmount(Tail(fs))

RECURSIVE SumProceeds(_)
SumProceeds(fs) ==
  IF fs = <<>> THEN 0 ELSE Head(fs).proceedsCents + SumProceeds(Tail(fs))

FillsOf(fs, c) == SelectSeq(fs, LAMBDA f : f.currency = c)

\* the fills appended by the step
NewFills == SubSeq(fills', Len(fills) + 1, Len(fills'))

\* C1: conservation. In every state of a run (between any two operations,
\* and also when an Error has ended the run), for each currency the initial
\* quantities of its batches minus the amounts of its fills equal the
\* remaining quantities of its batches.
C1_Conservation ==
  \A c \in Currency :
    SumInitial(inventories[c]) - SumAmount(FillsOf(fills, c))
      = SumRemaining(inventories[c])

\* an XLM batch partly consumed, a second XLM batch after it, and EURC held
C1_Witness ==
  /\ Len(inventories.XLM) >= 2
  /\ inventories.XLM[1].qtyRemainingStroops > 0
  /\ inventories.XLM[1].qtyRemainingStroops < inventories.XLM[1].qtyInitialStroops
  /\ FillsOf(fills, "XLM") # <<>>
  /\ inventories.EURC[1].qtyRemainingStroops > 0

\* C3: with non-negative amounts and fees, every batch of every currency has
\* 0 <= qtyRemainingStroops <= qtyInitialStroops, in every state.
C3_RemainingWithinInitial ==
  \A c \in Currency : \A i \in 1..Len(inventories[c]) :
    /\ 0 <= inventories[c][i].qtyRemainingStroops
    /\ inventories[c][i].qtyRemainingStroops <= inventories[c][i].qtyInitialStroops

\* a disposal larger than the first USDC batch has emptied it and gone on to
\* empty the second
C3_Witness ==
  /\ Len(inventories.USDC) >= 2
  /\ inventories.USDC[1].qtyRemainingStroops = 0
  /\ inventories.USDC[2].qtyRemainingStroops = 0
  /\ op.kind = "payment"
  /\ Len(FillsOf(fills, "USDC")) = 2

\* index of the earliest-created batch with a nonzero remaining quantity
EarliestOpen(inv) ==
  LET open == {i \in 1..Len(inv) : inv[i].qtyRemainingStroops # 0}
  IN IF open = {} THEN 0 ELSE CHOOSE i \in open : \A j \in open : i <= j

\* fs taken one after the other from inv, each from the earliest open batch
\* at its moment and from a later batch than the fill before it
RECURSIVE FifoWalk(_, _, _)
FifoWalk(inv, fs, lastIndex) ==
  IF fs = <<>> THEN [ok |-> TRUE, inv |-> inv]
  ELSE LET f == Head(fs)
           i == EarliestOpen(inv)
       IN IF i = 0 \/ i <= lastIndex \/ f.batchId # inv[i].batchId
            THEN [ok |-> FALSE, inv |-> inv]
            ELSE FifoWalk([inv EXCEPT ![i].qtyRemainingStroops = @ - f.amountStroops],
                          Tail(fs), i)

\* C2: FIFO order. For XLM and USDC, in every step the fills appended are
\* taken, one after the other, from the earliest-created batch whose
\* remaining quantity is nonzero at that moment, one fill per batch and in
\* batch creation order, and the batches' remaining quantities after the
\* step are what these takings leave.
C2_FifoOrder ==
  [][\A c \in {"XLM", "USDC"} :
       LET walk == FifoWalk(inventories[c], FillsOf(NewFills, c), 0)
       IN /\ walk.ok
          /\ \A i \in 1..Len(inventories[c]) :
               inventories'[c][i].qtyRemainingStroops
                 = walk.inv[i].qtyRemainingStroops]_vars

\* one disposal has emptied the first XLM batch and taken the rest from the
\* second, and a later disposal has skipped the empty batch
C2_Witness ==
  /\ Len(fills) = 3
  /\ Len(inventories.XLM) >= 2
  /\ \A k \in 1..3 : fills[k].currency = "XLM"
  /\ fills[1].txHash = fills[2].txHash
  /\ fills[1].dispKind = fills[2].dispKind
  /\ fills[1].batchId = inventories.XLM[1].batchId
  /\ fills[2].batchId = inventories.XLM[2].batchId
  /\ fills[3].batchId = inventories.XLM[2].batchId
  /\ fills[3].txHash # fills[2].txHash

\* the disposal the step asks for: <<currency, quantity, kind>>
DisposalsRequested ==
  IF IsOpStep
    THEN CASE op'.kind = "payment" /\ op'.direction = "out" ->
                {<<op'.currency, op'.amountStroops, "payment_out">>}
           [] op'.kind = "blend_deposit" ->
                {<<op'.currency, op'.amountStroops, "blend_deposit">>}
           [] op'.kind = "swap_fee" ->
                {<<op'.currency, op'.amountStroops, "swap_fee">>}
           [] op'.kind = "swap" ->
                {<<op'.sourceCurrency, op'.sourceAmountStroops, "swap_out">>}
           [] OTHER -> {}
    ELSE IF IsFeeStep /\ tx.feeStroops > 0
           THEN {<<"XLM", tx.feeStroops, "network_fee">>}
           ELSE {}

\* the acquisition the step asks for: <<currency, quantity>>
AcquisitionsRequested ==
  IF IsOpStep
    THEN CASE op'.kind = "create_account" -> {<<"XLM", op'.amountStroops>>}
           [] op'.kind = "payment" /\ op'.direction = "in" ->
                {<<op'.currency, op'.amountStroops>>}
           [] op'.kind = "blend_withdraw" -> {<<op'.currency, op'.amountStroops>>}
           [] op'.kind = "swap" ->
                {<<op'.destinationCurrency, op'.destinationAmountStroops>>}
           [] OTHER -> {}
    ELSE {}

\* the Error's message contains the currency code c and the calendar date of d
ErrorNames(err, c, d) ==
  \/ /\ "currency" \in DOMAIN err
     /\ err.currency = c
     /\ err.on[1] = d \div DAY_IN_MS
  \/ /\ "key" \in DOMAIN err
     /\ err.key = <<c, d \div DAY_IN_MS>>

\* the price book has no "<c>:<YYYY-MM-DD>" entry for the calendar date of d
NoEntry(c, d) == c # "EURC" /\ <<c, d \div DAY_IN_MS>> \notin DOMAIN priceBook

\* the Error is the missing-price Error for currency c and the date key of d
IsMissingPrice(err, c, d) ==
  /\ err.name = "Error"
  /\ err.text = "Missing price for"
  /\ err.key = <<c, d \div DAY_IN_MS>>

\* an Error ends the invocation: no step follows it
ThrowIsFinal == pc = "threw" => UNCHANGED vars

\* C4 as claimed: a disposal that requests more than the total remaining
\* quantity of its currency aborts the run with an Error whose message
\* contains that currency's code and the disposal's date.
C4_UnderflowAborts ==
  [][/\ ThrowIsFinal
     /\ \A d \in DisposalsRequested :
          d[2] > SumRemaining(inventories[d[1]])
            => pc' = "threw" /\ ErrorNames(error', d[1], tx.date)]_vars

\* C4 amended: such a disposal aborts the run with an Error and no result is
\* returned; the message contains the disposal's currency code and date,
\* except for a swap whose destination currency has no price-book entry for
\* that date, where the missing-price Error names the destination currency
\* and the date key.
C4_UnderflowAbortsAmended ==
  [][/\ ThrowIsFinal
     /\ \A d \in DisposalsRequested :
          d[2] > SumRemaining(inventories[d[1]])
            => /\ pc' = "threw"
               /\ IF d[3] = "swap_out" /\ NoEntry(op'.destinationCurrency, tx.date)
                    THEN ErrorNames(error', op'.destinationCurrency, tx.date)
                    ELSE ErrorNames(error', d[1], tx.date)]_vars

\* a payment out of more EURC than the par lot holds, after the lot was
\* partly consumed, has thrown the EURC underflow
C4_Witness ==
  /\ pc = "threw"
  /\ error.text = "EURC underflow on"
  /\ op.kind = "payment"
  /\ error.need > error.have
  /\ error.have > 0
  /\ inventories.EURC[1].qtyInitialStroops >= error.need

\* C5 as claimed: a nonzero XLM or USDC acquisition, or an XLM or USDC
\* disposal priced at market (outbound payment, blend_deposit) of any
\* quantity, on a date without a price-book entry aborts the run with the
\* Error naming that currency and date key.
C5_MissingPriceAborts ==
  [][/\ \A a \in AcquisitionsRequested :
          a[2] # 0 /\ NoEntry(a[1], tx.date)
            => pc' = "threw" /\ IsMissingPrice(error', a[1], tx.date)
     /\ \A d \in DisposalsRequested :
          d[3] \in {"payment_out", "blend_deposit"} /\ NoEntry(d[1], tx.date)
            => pc' = "threw" /\ IsMissingPrice(error', d[1], tx.date)]_vars

\* C5 amended: the same for a nonzero acquisition and for a nonzero disposal
\* priced at market; a disposal of 0 units looks no price up and the run goes
\* on.
C5_MissingPriceAbortsAmended ==
  [][/\ ThrowIsFinal
     /\ \A a \in AcquisitionsRequested :
          a[2] # 0 /\ NoEntry(a[1], tx.date)
            => pc' = "threw" /\ IsMissingPrice(error', a[1], tx.date)
     /\ \A d \in DisposalsRequested :
          /\ d[3] \in {"payment_out", "blend_deposit"}
          /\ d[2] # 0
          /\ NoEntry(d[1], tx.date)
          => pc' = "threw" /\ IsMissingPrice(error', d[1], tx.date)]_vars

\* XLM bought on the first day is paid out on the second day, for which the
\* book has no XLM price: the run has thrown, naming XLM and that day
C5_Witness ==
  /\ pc = "threw"
  /\ op.kind = "payment"
  /\ op.direction = "out"
  /\ op.amountStroops > 0
  /\ Len(inventories.XLM) >= 1
  /\ SumRemaining(inventories.XLM) >= op.amountStroops
  /\ IsMissingPrice(error, "XLM", tx.date)
  /\ dateKeyUTC(inventories.XLM[1].acquiredAt) # dateKeyUTC(tx.date)

\* d * P / s rounded to the nearest integer, halves up (s > 0, d * P >= 0)
IsRoundHalfUp(r, n, s) == 2 * r * s <= 2 * n + s /\ 2 * n + s < 2 * (r + 1) * s

\* the destination price of a swap: par for EURC, else the book's entry
DestPrice(c, d) ==
  IF c = "EURC" THEN MICRO_PER_EUR
                ELSE priceBook[<<c, d \div DAY_IN_MS>>].priceMicroEur

\* C6: every fill appended by a swap with source amount s > 0 has dispKind
\* swap_out and dispPriceMicro equal to d * P / s rounded half-up, where d is
\* the destination amount and P the destination price (par for EURC, else the
\* book's entry for the transaction's date); all fills of the swap carry this
\* one value.
C6_SwapImpliedPrice ==
  [][IsOpStep /\ op'.kind = "swap" /\ op'.sourceAmountStroops > 0
       => \A k \in 1..Len(NewFills) :
            /\ NewFills[k].dispKind = "swap_out"
            /\ NewFills[k].currency = op'.sourceCurrency
            /\ IsRoundHalfUp(NewFills[k].dispPriceMicro,
                             op'.destinationAmountStroops
                               * DestPrice(op'.destinationCurrency, tx.date),
                             op'.sourceAmountStroops)
            /\ NewFills[k].dispPriceMicro = NewFills[1].dispPriceMicro]_vars

\* a swap of 0.5 XLM into 0.25 USDC at 0.95 has taken its XLM from two
\* batches; 0.25 * 95 / 0.5 = 47.5 is recorded as 48 on both fills
C6_Witness ==
  /\ op.kind = "swap"
  /\ op.sourceCurrency = "XLM"
  /\ op.destinationCurrency = "USDC"
  /\ Len(fills) >= 2
  /\ fills[Len(fills)].dispKind = "swap_out"
  /\ fills[Len(fills) - 1].dispKind = "swap_out"
  /\ fills[Len(fills)].batchId # fills[Len(fills) - 1].batchId
  /\ fills[Len(fills)].dispPriceMicro = 48
  /\ 2 * op.destinationAmountStroops * 95 = (2 * 47 + 1) * op.sourceAmountStroops

\* cents is q * p / STROOPSxMICRO_PER_CENT rounded half-up (q * p >= 0)
IsCentsOf(cents, q, p) == IsRoundHalfUp(cents, q * p, STROOPSxMICRO_PER_CENT)

\* C7 as claimed: for every swap that is carried out, the proceedsCents of
\* the fills of its source-side disposal sum to sourceAmount x impliedPrice
\* converted to cents.
C7_SwapProceedsTotal ==
  [][IsOpStep /\ op'.kind = "swap" /\ pc' = "ops" /\ NewFills # <<>>
       => IsCentsOf(SumProceeds(NewFills), op'.sourceAmountStroops,
                    NewFills[1].dispPriceMicro)]_vars

\* C7 amended: for every swap that is carried out, the fills of its
\* source-side disposal have amounts summing to sourceAmount and each fill's
\* proceedsCents is its own amount x impliedPrice converted to cents; when
\* the disposal is taken from a single batch this is sourceAmount x
\* impliedPrice converted to cents (over several batches the sum of the
\* separately rounded proceeds can differ from that value).
C7_SwapProceedsPerFill ==
  [][IsOpStep /\ op'.kind = "swap" /\ pc' = "ops" /\ NewFills # <<>>
       => /\ SumAmount(NewFills) = op'.sourceAmountStroops
          /\ \A k \in 1..Len(NewFills) :
               IsCentsOf(NewFills[k].proceedsCents, NewFills[k].amountStroops,
                         NewFills[k].dispPriceMicro)
          /\ Len(NewFills) = 1
               => IsCentsOf(NewFills[1].proceedsCents, op'.sourceAmountStroops,
                            NewFills[1].dispPriceMicro)]_vars

\* a swap of 0.5 XLM at the implied price 45 taken from two batches of 0.25:
\* each fill has proceeds 11 (11.25 rounded), 0.5 x 45 is 22.5, rounded 23
C7_Witness ==
  /\ op.kind = "swap"
  /\ pc = "ops"
  /\ Len(fills) = 2
  /\ fills[1].dispKind = "swap_out" /\ fills[2].dispKind = "swap_out"
  /\ fills[1].dispPriceMicro = 45
  /\ fills[1].proceedsCents = 11 /\ fills[2].proceedsCents = 11
  /\ IsCentsOf(23, op.sourceAmountStroops, 45)

\* C8: every EURC fill of an ordinary disposal (payment_out, blend_deposit)
\* has costCents = proceedsCents and gainLossCents = 0; every EURC fill of a
\* swap_fee has proceedsCents = 0 and gainLossCents = -costCents.
C8_EurcParValuation ==
  \A k \in 1..Len(fills) :
    fills[k].currency = "EURC"
      => /\ fills[k].dispKind \in {"payment_out", "blend_deposit"}
              => /\ fills[k].costCents = fills[k].proceedsCents
                 /\ fills[k].gainLossCents = 0
         /\ fills[k].dispKind = "swap_fee"
              => /\ fills[k].proceedsCents = 0
                 /\ fills[k].gainLossCents = -fills[k].costCents

\* EURC was paid out (cost 25 = proceeds) and then an EURC swap fee was
\* charged (cost 25, proceeds 0)
C8_Witness ==
  /\ Len(fills) = 2
  /\ fills[1].currency = "EURC" /\ fills[2].currency = "EURC"
  /\ fills[1].dispKind = "payment_out" /\ fills[1].costCents > 0
  /\ fills[2].dispKind = "swap_fee" /\ fills[2].costCents > 0
  /\ fills[2].gainLossCents < 0

FeeFillsOf(fs, h) ==
  SelectSeq(fs, LAMBDA f : f.dispKind = "network_fee" /\ f.txHash = h)

\* C10: a TxRow with feeStroops > 0 gets one network_fee disposal of
\* feeStroops XLM, after all of its operations and before the next TxRow:
\* while its ops are dispatched it has no network_fee fill; once it is done
\* its network_fee fills are the last fills, all of XLM, and their amounts
\* sum to feeStroops; a TxRow with fee 0 has none.  Every network_fee fill
\* has dispPriceMicro 0, proceedsCents 0 and gainLossCents = -costCents.
\* Fills are only ever appended, TxRow after TxRow.
C10_NetworkFee ==
  /\ [](/\ \A k \in 1..Len(fills) :
             fills[k].dispKind = "network_fee"
               => /\ fills[k].currency = "XLM"
                  /\ fills[k].dispPriceMicro = 0
                  /\ fills[k].proceedsCents = 0
                  /\ fills[k].gainLossCents = -fills[k].costCents
        /\ pc = "ops" => FeeFillsOf(fills, tx.transactionHash) = <<>>
        /\ pc \in {"next", "returned"} /\ txCount >= 1
             => LET fee == FeeFillsOf(fills, tx.transactionHash)
                IN /\ SumAmount(fee) = tx.feeStroops
                   /\ tx.feeStroops = 0 => fee = <<>>
                   /\ fee = SubSeq(fills, Len(fills) - Len(fee) + 1, Len(fills)))
  /\ [][/\ SubSeq(fills', 1, Len(fills)) = fills
        /\ \A k \in 1..Len(NewFills) : NewFills[k].txHash = tx'.transactionHash
        /\ pc = "next" /\ pc' = "ops" => FeeFillsOf(fills, tx'.transactionHash) = <<>>]_vars

\* the fee of a TxRow was taken from two XLM batches, after the fill of an
\* operation of the same TxRow
C10_Witness ==
  /\ pc = "next"
  /\ tx.feeStroops > 0
  /\ Len(fills) = 3
  /\ \A k \in 1..3 : fills[k].txHash = tx.transactionHash
  /\ fills[1].dispKind # "network_fee"
  /\ fills[2].dispKind = "network_fee" /\ fills[3].dispKind = "network_fee"
  /\ fills[2].batchId # fills[3].batchId
  /\ fills[2].costCents + fills[3].costCents > 0

\* C11: computeFifoFills called a second time with the same txRows and the
\* same priceBook ends as the first call did: it returns the same fills and
\* the same endingBatches, or throws the same Error.  The second call starts
\* from inventories, counters and fills built anew (nothing the first call
\* left is seen), and its first XLM and USDC batches have the ids #0001.
C11_SameResult ==
  invocation = 2
    => /\ pc \in {"returned", "threw"} => Outcome = firstResult
       /\ txCount = 0
            => /\ fills = <<>>
               /\ batchSeq = [XLM |-> 0, USDC |-> 0]
               /\ \A c \in Currency : SumInitial(inventories[c]) = 0
       /\ \A c \in {"XLM", "USDC"} :
            Len(inventories[c]) >= 1
              => inventories[c][1].batchId = <<c, "#", "0", "0", "0", "1">>

\* both calls have returned, with a batch created and a fill taken from it
C11_Witness ==
  /\ invocation = 2
  /\ pc = "returned"
  /\ firstResult.pc = "returned"
  /\ Len(fills) >= 1
  /\ Len(inventories.XLM) >= 1
  /\ fills[1].batchId = inventories.XLM[1].batchId
  /\ Len(txRows) >= 1

\* C12: a sell_offer op is handled as a swap with the same source and
\* destination currencies and amounts is: after the step, inventories,
\* counters, fills and the Error (if any) are what the swap branch makes of
\* the state before the step.
C12_SellOfferAsSwap ==
  [][IsOpStep /\ op'.kind = "sell_offer"
       => LET swapped == SwapBranch(Current, priceBook, tx, op')
          IN /\ fills' = swapped.fills
             /\ inventories' = swapped.inventories
             /\ batchSeq' = swapped.batchSeq
             /\ error' = swapped.error]_vars

\* the op is an acquisition: create_account, inbound payment or blend_withdraw
IsAcquisitionOp(o) ==
  \/ o.kind = "create_account"
  \/ o.kind = "payment" /\ o.direction = "in"
  \/ o.kind = "blend_withdraw"

\* C13: a create_account, inbound payment or blend_withdraw of 0 units, of
\* any currency and on any date (priced or not), creates no batch, leaves the
\* batch-id counters, the fills and every quantity as they are, and the run
\* goes on.
C13_ZeroAcquisition ==
  [][IsOpStep /\ IsAcquisitionOp(op') /\ op'.amountStroops = 0
       => /\ inventories' = inventories
          /\ batchSeq' = batchSeq
          /\ fills' = fills
          /\ pc' = "ops"
          /\ error' = NoError]_vars

\* an inbound payment of 0 units of a currency without a price for the day
\* has been dispatched while an XLM batch exists, and the run goes on
C13_Witness ==
  /\ op.kind = "payment"
  /\ op.direction = "in"
  /\ op.amountStroops = 0
  /\ NoEntry(op.currency, tx.date)
  /\ pc = "ops"
  /\ Len(inventories.XLM) >= 1
  /\ batchSeq.XLM = 1

\* C14: a swap that is carried out records its destination leg as an
\* acquisition of the destination amount d: for XLM or USDC and d # 0, one
\* batch is appended to that currency's list, with acqKind swap_in, both
\* quantities d, the transaction's date and hash, and priceMicroAtAcq the
\* price-book entry of the destination currency for the transaction's UTC
\* date (not the implied price of the source leg); for d = 0 nothing is
\* appended; for EURC no batch is appended and the par lot's total inflow
\* grows by d (and its remaining quantity, EURC not being the source).
C14_SwapDestination ==
  [][IsOpStep /\ op'.kind = "swap" /\ pc' = "ops"
       => LET c == op'.destinationCurrency
              d == op'.destinationAmountStroops
              n == Len(inventories[c])
          IN IF c = "EURC"
               THEN /\ Len(inventories'.EURC) = 1
                    /\ inventories'.EURC[1].priceMicroAtAcq = MICRO_PER_EUR
                    /\ inventories'.EURC[1].qtyInitialStroops
                         = inventories.EURC[1].qtyInitialStroops + d
                    /\ op'.sourceCurrency # "EURC"
                         => inventories'.EURC[1].qtyRemainingStroops
                              = inventories.EURC[1].qtyRemainingStroops + d
             ELSE IF d = 0
               THEN Len(inventories'[c]) = n
               ELSE /\ Len(inventories'[c]) = n + 1
                    /\ inventories'[c][n + 1].currency = c
                    /\ inventories'[c][n + 1].acqKind = "swap_in"
                    /\ inventories'[c][n + 1].qtyInitialStroops = d
                    /\ inventories'[c][n + 1].qtyRemainingStroops = d
                    /\ inventories'[c][n + 1].acquiredAt = tx.date
                    /\ inventories'[c][n + 1].acqTxHash = tx.transactionHash
                    /\ inventories'[c][n + 1].priceMicroAtAcq
                         = priceBook[<<c, tx.date \div DAY_IN_MS>>].priceMicroEur]_vars

\* a swap of XLM into USDC was carried out: the USDC batch is priced at the
\* book's USDC price, the XLM fill at the implied price, and the two differ
C14_Witness ==
  /\ op.kind = "swap"
  /\ op.sourceCurrency = "XLM"
  /\ op.destinationCurrency = "USDC"
  /\ pc = "ops"
  /\ Len(inventories.USDC) >= 1
  /\ Len(fills) >= 1
  /\ inventories.USDC[Len(inventories.USDC)].acqKind = "swap_in"
  /\ inventories.USDC[Len(inventories.USDC)].acqTxHash = tx.transactionHash
  /\ fills[Len(fills)].dispKind = "swap_out"
  /\ fills[Len(fills)].dispPriceMicro
       # inventories.USDC[Len(inventories.USDC)].priceMicroAtAcq

\* the op moves EURC only and is no swap: a payment, a blend transfer or a
\* swap fee in EURC
IsEurcOnlyOp(o) ==
  /\ o.kind \in {"payment", "blend_deposit", "blend_withdraw", "swap_fee"}
  /\ o.currency = "EURC"

\* the op takes EURC out: outbound payment, blend_deposit or swap fee
IsEurcDisposalOp(o) ==
  /\ IsEurcOnlyOp(o)
  /\ \/ o.kind \in {"blend_deposit", "swap_fee"}
     \/ o.kind = "payment" /\ o.direction = "out"

\* C15 as claimed: with an empty price book, no step of a history made of
\* EURC payments, EURC blend transfers and EURC swap fees with zero network
\* fees ends the run with an Error: the history is processed to completion.
C15_EurcOnlyCompletes ==
  [][DOMAIN priceBook = {}
       => /\ IsOpStep /\ IsEurcOnlyOp(op') => pc' # "threw"
          /\ IsFeeStep /\ tx.feeStroops = 0 => pc' # "threw"]_vars

\* C15 amended: such a history needs no price: whatever the price book
\* holds (nothing, in particular), none of its steps fails for a missing
\* price.  A step fails only when it disposes of more EURC than the par lot
\* has left, with the EURC underflow Error; otherwise the run goes on, so
\* that a history without such a disposal is processed to completion.  EURC
\* cost is always at par, and so are the proceeds of its outbound payments
\* and blend deposits.
C15_EurcNeedsNoPrice ==
  /\ [](\A k \in 1..Len(fills) :
          fills[k].currency = "EURC"
            => /\ fills[k].acqPriceMicro = MICRO_PER_EUR
               /\ fills[k].dispKind \in {"payment_out", "blend_deposit"}
                    => fills[k].dispPriceMicro = MICRO_PER_EUR)
  /\ [][/\ IsOpStep /\ IsEurcOnlyOp(op')
            => IF IsEurcDisposalOp(op')
                    /\ op'.amountStroops > inventories.EURC[1].qtyRemainingStroops
                 THEN pc' = "threw" /\ error'.text = "EURC underflow on"
                 ELSE pc' = "ops" /\ error' = NoError
        /\ IsFeeStep /\ tx.feeStroops = 0
            => pc' = "next" /\ error' = NoError]_vars

\* with an empty price book, a history of EURC operations only (EURC came
\* in, EURC went out at par, no batch of another currency was ever created)
\* has been processed to completion
C15_Witness ==
  /\ DOMAIN priceBook = {}
  /\ pc = "returned"
  /\ Len(fills) = 2
  /\ fills[1].currency = "EURC" /\ fills[2].currency = "EURC"
  /\ fills[1].dispPriceMicro = MICRO_PER_EUR
  /\ tx.feeStroops = 0
  /\ batchSeq = [XLM |-> 0, USDC |-> 0]
  /\ opCount = 3

\* C16 as claimed: an EURC disposal (outbound payment, swap source leg,
\* blend_deposit or swap_fee) that requests more than the par lot has left
\* fails with the Error naming EURC ("EURC underflow"), no fill appended and
\* the par lot as it was.
C16_EurcUnderflow ==
  [][\A d \in DisposalsRequested :
       d[1] = "EURC" /\ d[2] > inventories.EURC[1].qtyRemainingStroops
         => /\ pc' = "threw"
            /\ error'.text = "EURC underflow on"
            /\ fills' = fills
            /\ inventories' = inventories]_vars

\* C16 amended: such a disposal fails before anything is recorded (no fill
\* appended, the par lot and every other batch unchanged) with the "EURC
\* underflow" Error, which carries the requested and the remaining quantity;
\* the one exception is the source leg of a swap whose destination currency
\* has no price-book entry for the date: there the run fails before the
\* disposal is looked at, with the missing-price Error of the destination
\* currency.
C16_EurcUnderflowAmended ==
  [][\A d \in DisposalsRequested :
       d[1] = "EURC" /\ d[2] > inventories.EURC[1].qtyRemainingStroops
         => /\ pc' = "threw"
            /\ fills' = fills
            /\ inventories' = inventories
            /\ batchSeq' = batchSeq
            /\ IF d[3] = "swap_out" /\ NoEntry(op'.destinationCurrency, tx.date)
                 THEN IsMissingPrice(error', op'.destinationCurrency, tx.date)
                 ELSE /\ error'.text = "EURC underflow on"
                      /\ error'.currency = "EURC"
                      /\ error'.need = d[2]
                      /\ error'.have = inventories.EURC[1].qtyRemainingStroops]_vars

\* a swap out of more EURC than the par lot holds has failed with the EURC
\* underflow; the lot still holds what it held and no fill was appended
C16_Witness ==
  /\ pc = "threw"
  /\ op.kind = "swap"
  /\ op.sourceCurrency = "EURC"
  /\ error.text = "EURC underflow on"
  /\ error.have > 0
  /\ inventories.EURC[1].qtyRemainingStroops = error.have
  /\ fills = <<>>

\* C17: when an XLM or USDC disposal underflows nothing is rolled back: in
\* the state the Error leaves, the fills of the quantity that was available
\* have been appended (their amounts sum to what the currency held), every
\* batch of that currency has qtyRemainingStroops 0, no batch was removed,
\* and the Error carries the quantity still missing.
C17_UnderflowKeepsFills ==
  [][\A d \in DisposalsRequested :
       /\ d[1] # "EURC"
       /\ pc' = "threw"
       /\ error'.text = "FIFO underflow for"
       => /\ d[2] > SumRemaining(inventories[d[1]])
          /\ SumAmount(NewFills) = SumRemaining(inventories[d[1]])
          /\ \A k \in 1..Len(NewFills) :
               NewFills[k].currency = d[1] /\ NewFills[k].dispKind = d[3]
          /\ Len(inventories'[d[1]]) = Len(inventories[d[1]])
          /\ \A i \in 1..Len(inventories'[d[1]]) :
               inventories'[d[1]][i].qtyRemainingStroops = 0
          /\ error'.currency = d[1]
          /\ error'.need = d[2] - SumRemaining(inventories[d[1]])]_vars

\* an outbound payment of more XLM than held has failed: the fill of the
\* quantity that was there is the last fill, the batch is empty
C17_Witness ==
  /\ pc = "threw"
  /\ error.text = "FIFO underflow for"
  /\ error.currency = "XLM"
  /\ op.kind = "payment"
  /\ Len(fills) >= 1
  /\ Len(inventories.XLM) >= 1
  /\ fills[Len(fills)].dispKind = "payment_out"
  /\ fills[Len(fills)].txHash = tx.transactionHash
  /\ fills[Len(fills)].amountStroops + error.need = op.amountStroops
  /\ inventories.XLM[1].qtyRemainingStroops = 0
  /\ inventories.XLM[1].qtyInitialStroops > 0

\* the disposal fails before its quantity is looked at: its price lookup
\* throws (no book entry), or the swap's implied price divides by 0
FailsBeforeDisposal(d) ==
  \/ /\ d[3] \in {"payment_out", "blend_deposit"}
     /\ d[2] # 0
     /\ NoEntry(d[1], tx.date)
  \/ /\ d[3] = "swap_out"
     /\ NoEntry(op'.destinationCurrency, tx.date) \/ d[2] = 0

\* position of the TxRow with hash h in the input list
RowOf(h) == h[2]

\* C18: TxRows are applied in input order and the ops of a TxRow in list
\* order, the network fee after them.  Every operation acts on what all the
\* operations before it have left: a disposal (the fee included) succeeds
\* exactly when the quantity held before it, acquisitions of earlier ops of
\* the same TxRow included, covers it; its fills are taken from batches that
\* existed before the step, never from one a later operation (or the
\* step's own destination leg) creates; what an acquisition adds is held
\* right after its step.  Fills are in TxRow order and no fill is taken
\* from a batch of a later TxRow.
C18_OperationOrder ==
  /\ [](/\ \A k \in 1..Len(fills) : \A l \in k..Len(fills) :
             RowOf(fills[k].txHash) <= RowOf(fills[l].txHash)
        /\ \A k \in 1..Len(fills) :
             /\ RowOf(fills[k].txHash) <= txCount
             /\ fills[k].currency # "EURC"
                  => \E i \in 1..Len(inventories[fills[k].currency]) :
                       /\ inventories[fills[k].currency][i].batchId = fills[k].batchId
                       /\ RowOf(inventories[fills[k].currency][i].acqTxHash)
                            <= RowOf(fills[k].txHash))
  /\ [][/\ IsRowStep => /\ txCount' = txCount + 1
                         /\ tx'.transactionHash = TxHash(txCount')
        /\ \A k \in 1..Len(NewFills) :
             \E i \in 1..Len(inventories[NewFills[k].currency]) :
               /\ inventories[NewFills[k].currency][i].batchId = NewFills[k].batchId
               /\ NewFills[k].amountStroops
                    <= inventories[NewFills[k].currency][i].qtyRemainingStroops
        /\ \A d \in DisposalsRequested :
             ~FailsBeforeDisposal(d)
               => (pc' = "threw" <=> d[2] > SumRemaining(inventories[d[1]]))
        /\ \A a \in AcquisitionsRequested :
             pc' # "threw" /\ (\A d \in DisposalsRequested : d[1] # a[1])
               => SumRemaining(inventories'[a[1]])
                    = SumRemaining(inventories[a[1]]) + a[2]]_vars

\* the network fee of a TxRow was paid from the XLM batch that the
\* destination leg of a swap of the same TxRow created
C18_Witness ==
  /\ pc = "next"
  /\ tx.feeStroops > 0
  /\ Len(fills) >= 1
  /\ Len(inventories.XLM) = 1
  /\ fills[Len(fills)].dispKind = "network_fee"
  /\ fills[Len(fills)].txHash = tx.transactionHash
  /\ fills[Len(fills)].batchId = inventories.XLM[1].batchId
  /\ inventories.XLM[1].acqKind = "swap_in"
  /\ inventories.XLM[1].acqTxHash = tx.transactionHash

\* C19: batches are never removed or reordered.  A step leaves every XLM and
\* USDC batch at its place in its list, changing at most its remaining
\* quantity, and only appends; the EURC list stays the one par lot.  In
\* every state each list holds, in acquisition order, every batch created so
\* far (as many as batch ids were issued, unless the last acquisition threw),
\* whatever its remaining quantity, and the lists returned as endingBatches
\* are these lists.
C19_BatchesKept ==
  /\ [](\A c \in {"XLM", "USDC"} :
          /\ pc # "threw" => Len(inventories[c]) = batchSeq[c]
          /\ \A i \in 1..Len(inventories[c]) : \A j \in i..Len(inventories[c]) :
               /\ inventories[c][i].acquiredAt <= inventories[c][j].acquiredAt
               /\ RowOf(inventories[c][i].acqTxHash)
                    <= RowOf(inventories[c][j].acqTxHash))
  /\ [][/\ \A c \in {"XLM", "USDC"} :
             /\ Len(inventories'[c]) >= Len(inventories[c])
             /\ \A i \in 1..Len(inventories[c]) :
                  inventories'[c][i]
                    = [inventories[c][i] EXCEPT
                         !.qtyRemainingStroops = inventories'[c][i].qtyRemainingStroops]
        /\ Len(inventories'.EURC) = 1
        /\ pc' = "returned" => inventories' = inventories]_vars

\* the result was returned with a fully consumed XLM batch still listed
\* before a batch that has quantity left
C19_Witness ==
  /\ pc = "returned"
  /\ Len(inventories.XLM) >= 2
  /\ inventories.XLM[1].qtyRemainingStroops = 0
  /\ inventories.XLM[1].qtyInitialStroops > 0
  /\ inventories.XLM[2].qtyRemainingStroops > 0

\* the digits of k (k < 10000) with leading zeros, four in all
FourDigits(k) ==
  LET digit == [d \in 0..9 |->
                  CASE d = 0 -> "0" [] d = 1 -> "1" [] d = 2 -> "2" [] d = 3 -> "3"
                    [] d = 4 -> "4" [] d = 5 -> "5" [] d = 6 -> "6" [] d = 7 -> "7"
                    [] d = 8 -> "8" [] d = 9 -> "9"]
  IN <<digit[(k \div 1000) % 10], digit[(k \div 100) % 10],
       digit[(k \div 10) % 10], digit[k % 10]>>

\* the batches of all lists, as <<currency, position>> (an op creates at
\* most one batch)
AllBatches ==
  {b \in Currency \X (1..MaxOps) : b[2] <= Len(inventories[b[1]])}

\* C20: the k-th batch created for XLM (for USDC) has the batchId "XLM#"
\* ("USDC#") followed by k with leading zeros to four digits (numbers of
\* five digits and more are written out in full); a step that creates
\* batches of one currency leaves the other currency's counter alone; no two
\* batches of a run, the EURC par lot included, have the same batchId.
C20_BatchIds ==
  /\ [](/\ \A c \in {"XLM", "USDC"} : \A k \in 1..Len(inventories[c]) :
             inventories[c][k].batchId = <<c, "#">> \o FourDigits(k)
        /\ \A c \in Currency : Len(inventories[c]) <= MaxOps
        /\ \A a \in AllBatches : \A b \in AllBatches :
             a # b => inventories[a[1]][a[2]].batchId # inventories[b[1]][b[2]].batchId
        /\ newBatchId([XLM |-> 9998, USDC |-> 0], "XLM").id = <<"XLM", "#">> \o FourDigits(9999)
        /\ newBatchId([XLM |-> 9999, USDC |-> 0], "XLM").id
             = <<"XLM", "#", "1", "0", "0", "0", "0">>
        /\ newBatchId([XLM |-> 9999, USDC |-> 0], "XLM").batchSeq
             = [XLM |-> 10000, USDC |-> 0]
        /\ newBatchId([XLM |-> 0, USDC |-> 41], "USDC").id = <<"USDC", "#">> \o FourDigits(42))
  /\ [][\A c \in {"XLM", "USDC"} :
          Len(inventories'[c]) = Len(inventories[c]) /\ pc' # "threw"
            => batchSeq'[c] = batchSeq[c]]_vars

\* XLM and USDC batches were created alternately: XLM#0001, USDC#0001,
\* XLM#0002
C20_Witness ==
  /\ Len(inventories.XLM) = 2
  /\ Len(inventories.USDC) = 1
  /\ inventories.XLM[1].acquiredAt <= inventories.USDC[1].acquiredAt
  /\ inventories.USDC[1].acquiredAt <= inventories.XLM[2].acquiredAt
  /\ inventories.XLM[2].batchId = <<"XLM", "#", "0", "0", "0", "2">>
  /\ inventories.USDC[1].batchId = <<"USDC", "#", "0", "0", "0", "1">>

(* ------------------------------- C21 ---------------------------------- *)

\* C21: every fill carries the id, the acquisition price and the acquisition
\* date of a batch of its currency, its cost is its amount valued at that
\* batch's acquisition price, its proceeds are its amount valued at its
\* dispPriceMicro, its gain/loss is proceeds minus cost, and a fill of kind
\* swap_fee or network_fee has proceeds 0.
C21_FillValuation ==
  \A i \in 1..Len(fills) :
    LET f == fills[i]
    IN /\ \E k \in 1..Len(inventories[f.currency]) :
            LET b == inventories[f.currency][k]
            IN /\ f.batchId = b.batchId
               /\ f.acqPriceMicro = b.priceMicroAtAcq
               /\ f.acquiredAt = b.acquiredAt
               /\ f.costCents =
                    valueCentsFromStroops(f.amountStroops, b.priceMicroAtAcq)
       /\ f.proceedsCents = valueCentsFromStroops(f.amountStroops, f.dispPriceMicro)
       /\ f.gainLossCents = f.proceedsCents - f.costCents
       /\ f.dispKind \in {"swap_fee", "network_fee"} => f.proceedsCents = 0

\* a market-priced fill with a gain or loss from a batch bought at another
\* price, and a fee fill whose cost is not 0
C21_Witness ==
  /\ \E i \in 1..Len(fills) :
       /\ fills[i].dispKind \in {"payment_out", "blend_deposit"}
       /\ fills[i].currency # "EURC"
       /\ fills[i].acqPriceMicro # fills[i].dispPriceMicro
       /\ fills[i].gainLossCents # 0
  /\ \E i \in 1..Len(fills) :
       /\ fills[i].dispKind \in {"swap_fee", "network_fee"}
       /\ fills[i].costCents > 0
       /\ fills[i].gainLossCents = -fills[i].costCents

(* ------------------------------- C22 ---------------------------------- *)

\* a step leaves the remaining quantity of every existing batch of currency c
\* at or below what it was
RemainingNotIncreased(c) ==
  \A k \in 1..Len(inventories[c]) :
    /\ k <= Len(inventories'[c])
    /\ inventories'[c][k].qtyRemainingStroops <= inventories[c][k].qtyRemainingStroops

\* C22 as stated: no step increases the remaining quantity of an existing
\* batch, of any currency.
C22_RemainingNonIncreasing ==
  [][\A c \in Currency : RemainingNotIncreased(c)]_vars

\* C22: no step increases the remaining quantity of an existing XLM or USDC
\* batch; the remaining quantity of the EURC par lot is increased by every
\* nonzero EURC acquisition, by the acquired quantity and together with its
\* initial quantity, and by nothing else.
C22_RemainingNonIncreasingAmended ==
  [][/\ RemainingNotIncreased("XLM")
     /\ RemainingNotIncreased("USDC")
     /\ LET lot == inventories["EURC"][1]
            lotAfter == inventories'["EURC"][1]
            acquired == IF pc' = "threw" \/ ~IsOpStep THEN 0
                        ELSE IF op'.kind = "payment" /\ op'.direction = "in"
                                /\ op'.currency = "EURC"
                          THEN op'.amountStroops
                        ELSE IF op'.kind = "blend_withdraw" /\ op'.currency = "EURC"
                          THEN op'.amountStroops
                        ELSE IF op'.kind = "swap" /\ op'.destinationCurrency = "EURC"
                          THEN op'.destinationAmountStroops
                        ELSE 0
        IN /\ lotAfter.qtyInitialStroops = lot.qtyInitialStroops + acquired
           /\ lotAfter.qtyRemainingStroops <= lot.qtyRemainingStroops + acquired
           /\ IsOpStep /\ op'.kind # "swap" /\ acquired > 0 =>
                lotAfter.qtyRemainingStroops = lot.qtyRemainingStroops + acquired]_vars

\* an XLM batch has been drawn on in part, and the step just taken is an EURC
\* acquisition that raised the par lot
C22_Witness ==
  /\ \E k \in 1..Len(inventories["XLM"]) :
       /\ inventories["XLM"][k].qtyRemainingStroops > 0
       /\ inventories["XLM"][k].qtyRemainingStroops
            < inventories["XLM"][k].qtyInitialStroops
  /\ pc = "ops"
  /\ op.kind = "blend_withdraw"
  /\ op.currency = "EURC"
  /\ op.amountStroops > 0
  /\ inventories["EURC"][1].qtyRemainingStroops = op.amountStroops

(* ------------------------------- C29 ---------------------------------- *)

\* a non-negative amount string: decimal digits, at least one, with at most
\* one decimal point
IsAmountString(raw) ==
  /\ \A i \in 1..Len(raw) : raw[i] \in Digits \cup {"."}
  /\ \E i \in 1..Len(raw) : raw[i] \in Digits
  /\ \A i, j \in 1..Len(raw) : raw[i] = "." /\ raw[j] = "." => i = j

\* the digit at position i of raw as a number, 0 beyond the end of raw
DigitAt(raw, i) == IF i <= Len(raw) THEN DigitValue(raw[i]) ELSE 0

\* the digits raw[from..to] read as a decimal number
RECURSIVE NumberAt(_, _, _)
NumberAt(raw, from, to) ==
  IF to < from THEN 0
  ELSE 10 * NumberAt(raw, from, to - 1) + DigitAt(raw, to)

\* C29: for a non-negative amount string, toStroops returns the integer
\* unchanged when there is no decimal point, and otherwise the integer part
\* times 10,000,000 plus the first 7 fraction digits, right-padded with zeros
\* when fewer and with any further digits dropped, never rounded.
C29_ToStroops ==
  (args.fn = "toStroops" /\ result.returned /\ IsAmountString(args.raw)) =>
    LET raw == args.raw
        point == IndexOf(raw, ".")
    IN /\ result.error = NoError
       /\ point = 0 => result.value = NumberAt(raw, 1, Len(raw))
       /\ point > 0 =>
            result.value =
              NumberAt(raw, 1, point - 1) * 10000000 + NumberAt(raw, point + 1, point + 7)

\* a conversion that had to drop a digit which rounding would have carried:
\* "21.19999999" has the 8th fraction digit 9 and yields 211999999
C29_Witness ==
  /\ args.fn = "toStroops"
  /\ result.returned
  /\ args.raw = <<"2", "1", ".", "1", "9", "9", "9", "9", "9", "9", "9">>
  /\ result.value = 211999999

(* ------------------------------- C30 ---------------------------------- *)

\* r is n / STROOPSxMICRO_PER_CENT rounded to the nearest integer, an exact
\* half rounded up
IsNearestHalfUp(r, n) ==
  /\ r * STROOPSxMICRO_PER_CENT - STROOPSxMICRO_PER_CENT \div 2 <= n
  /\ n < r * STROOPSxMICRO_PER_CENT + STROOPSxMICRO_PER_CENT \div 2

\* C30: for q, p >= 0 valueCentsFromStroops(q, p) is q * p divided by
\* STROOPSxMICRO_PER_CENT and rounded to the nearest integer, exact halves
\* up, and valueCentsFromStroops(-q, p) is minus that.
C30_ValueCents ==
  (args.fn = "valueCentsFromStroops" /\ result.returned) =>
    LET q == args.amountStroops
        p == args.priceMicro
    IN /\ result.error = NoError
       /\ q >= 0 => /\ IsNearestHalfUp(result.value, q * p)
                    /\ valueCentsFromStroops(-q, p) = -result.value
       /\ q < 0 => /\ IsNearestHalfUp(-result.value, (-q) * p)
                   /\ valueCentsFromStroops(-q, p) = -result.value

\* an exact half of a cent, 2500000 stroops at price 2, rounded up to 1
C30_Witness ==
  /\ args.fn = "valueCentsFromStroops"
  /\ result.returned
  /\ args.priceMicro = 2
  /\ args.amountStroops = 2500000
  /\ result.value = 1
  /\ valueCentsFromStroops(-2500000, 2) = -1

(* ------------------------------- C23 ---------------------------------- *)

\* the step of processTransactions that pushes the TxRow of tx
IsSnapshotStep == pc = "ops" /\ pc' = "next"

\* the balances a TxRow's op summaries lead to, from the balances before it
RECURSIVE Replay(_, _)
Replay(bal, ops) ==
  IF Len(ops) = 0 THEN bal
  ELSE
    LET before == Replay(bal, SubSeq(ops, 1, Len(ops) - 1))
        o == ops[Len(ops)]
    IN IF o.kind = "create_account"
         THEN [before EXCEPT !.XLM = o.amountStroops]
       ELSE IF o.kind = "payment"
         THEN [before EXCEPT ![o.currency] =
                 IF o.direction = "in" THEN @ + o.amountStroops ELSE @ - o.amountStroops]
       ELSE IF o.kind \in {"swap", "sell_offer"}
         THEN [[before EXCEPT ![o.sourceCurrency] = @ - o.sourceAmountStroops]
                 EXCEPT ![o.destinationCurrency] = @ + o.destinationAmountStroops]
       ELSE IF o.kind \in {"swap_fee", "blend_deposit"}
         THEN [before EXCEPT ![o.currency] = @ - o.amountStroops]
       ELSE IF o.kind = "blend_withdraw"
         THEN [before EXCEPT ![o.currency] = @ + o.amountStroops]
       ELSE before

\* the snapshot of the TxRow before the one being built
PreviousSnapshot == IF Len(txRows) = 0 THEN NewBalances ELSE txRows[Len(txRows)].balances

\* C23: the TxRow pushed for a transaction has feeStroops = fee_charged when
\* fee_account is the wallet and 0 otherwise, and its snapshot is what the
\* transaction's operations lead to from the previous snapshot with XLM
\* lowered by that fee once, however many operations there are.
C23_FeeOnce ==
  [][IsSnapshotStep =>
       LET row == txRows'[Len(txRows')]
           charged == NumberAt(tx.fee_charged, 1, Len(tx.fee_charged))
           paid == IF tx.fee_account = walletAddress THEN charged ELSE 0
           afterOps == Replay(PreviousSnapshot, row.ops)
       IN /\ Len(txRows') = Len(txRows) + 1
          /\ row.feeStroops = paid
          /\ row.ops = rowOps
          /\ afterOps = balances
          /\ row.balances = [afterOps EXCEPT !.XLM = @ - paid]]_vars

\* a transaction of two operations whose fee of 100 the wallet paid, and after
\* it one without operations whose fee of 100 another account paid
C23_Witness ==
  /\ pc = "next"
  /\ Len(txRows) = 2
  /\ Len(txRows[1].ops) = 2
  /\ txRows[1].feeStroops = 100
  /\ Len(txRows[2].ops) = 0
  /\ txRows[2].feeStroops = 0
  /\ tx.fee_account # walletAddress
  /\ tx.fee_charged = <<"1", "0", "0">>
  /\ txRows[2].balances = txRows[1].balances

(* ------------------------------- C24 ---------------------------------- *)

\* the step dispatches an operation record of the given type without throwing
IsRecordStep(type) == IsOpStep /\ op'.type = type /\ pc' # "threw"

\* C24: a payment of amount a in currency c raises the running c balance by a,
\* tagged "in", when the wallet is the destination, and lowers it by a, tagged
\* "out", when the wallet is the source; the other balances stay.
C24_Payment ==
  [][IsRecordStep("payment") =>
       LET a == toStroops(op'.amount).value
           c == toCurrency(op'.asset_type, op'.asset_code).value
           summary == rowOps'[Len(rowOps')]
       IN /\ Len(rowOps') = Len(rowOps) + 1
          /\ summary.kind = "payment"
          /\ summary.currency = c
          /\ summary.amountStroops = a
          /\ op'.to = walletAddress =>
               summary.direction = "in" /\ balances'[c] = balances[c] + a
          /\ op'.from = walletAddress =>
               summary.direction = "out" /\ balances'[c] = balances[c] - a
          /\ \A other \in Currency \ {c} : balances'[other] = balances[other]]_vars

(* ------------------------------- C25 ---------------------------------- *)

\* C25: a create_account operation with starting balance s raises the
\* running XLM balance by s, on top of what it was, and is recorded as a
\* create_account op of amount s to the wallet.
C25_CreateAccount ==
  [][IsRecordStep("create_account") =>
       LET s == toStroops(op'.starting_balance).value
           summary == rowOps'[Len(rowOps')]
       IN /\ Len(rowOps') = Len(rowOps) + 1
          /\ summary.kind = "create_account"
          /\ summary.amountStroops = s
          /\ summary.to = walletAddress
          /\ balances'.XLM = balances.XLM + s
          /\ balances'.USDC = balances.USDC
          /\ balances'.EURC = balances.EURC]_vars

(* ------------------------------- C26 ---------------------------------- *)

\* C26: a path payment, strict send or strict receive, from the wallet to the
\* wallet is recorded as one swap op; the source currency is debited by
\* source_amount and the destination currency credited by amount, each amount
\* read from its own field of the record.
C26_PathPaymentSwap ==
  [][(\/ IsRecordStep("path_payment_strict_send")
      \/ IsRecordStep("path_payment_strict_receive"))
     /\ op'.from = walletAddress /\ op'.to = walletAddress =>
       LET s == toCurrency(op'.source_asset_type, op'.source_asset_code).value
           d == toCurrency(op'.asset_type, op'.asset_code).value
           sa == NumberAt(op'.source_amount, 1, IndexOf(op'.source_amount, ".") - 1)
                   * 10000000
                 + NumberAt(op'.source_amount, IndexOf(op'.source_amount, ".") + 1,
                            IndexOf(op'.source_amount, ".") + 7)
           da == NumberAt(op'.amount, 1, IndexOf(op'.amount, ".") - 1) * 10000000
                 + NumberAt(op'.amount, IndexOf(op'.amount, ".") + 1,
                            IndexOf(op'.amount, ".") + 7)
           debited == [balances EXCEPT ![s] = @ - sa]
       IN /\ rowOps' = Append(rowOps,
                              [kind |-> "swap",
                               sourceCurrency |-> s, sourceAmountStroops |-> sa,
                               destinationCurrency |-> d, destinationAmountStroops |-> da])
          /\ balances' = [debited EXCEPT ![d] = @ + da]]_vars

\* a path payment from the wallet to itself has been recorded as a swap of
\* 1.25 XLM for 0.5 USDC, on balances that were not zero
C26_Witness ==
  /\ pc = "ops"
  /\ opCount = 2
  /\ op # NoOp
  /\ op.type = "path_payment_strict_send"
  /\ op.to = walletAddress
  /\ Len(rowOps) > 0
  /\ rowOps[Len(rowOps)].kind = "swap"
  /\ rowOps[Len(rowOps)].sourceCurrency = "XLM"
  /\ rowOps[Len(rowOps)].sourceAmountStroops = 12500000
  /\ rowOps[Len(rowOps)].destinationCurrency = "USDC"
  /\ rowOps[Len(rowOps)].destinationAmountStroops = 5000000
  /\ balances.XLM = 5000000 - 12500000
  /\ balances.USDC = 5000000

(* ------------------------------- C27 ---------------------------------- *)

\* the asset codes an operation record refers to
AssetCodesOf(o) ==
  IF o.type \in {"payment", "change_trust"} THEN {o.asset_code}
  ELSE IF o.type \in {"path_payment_strict_send", "path_payment_strict_receive"}
    THEN {o.source_asset_code, o.asset_code}
  ELSE IF o.type = "manage_sell_offer"
    THEN {o.selling_asset_code, o.buying_asset_code}
  ELSE IF o.type = "invoke_host_function"
    THEN {o.asset_balance_changes[i].asset_code : i \in 1..Len(o.asset_balance_changes)}
  ELSE {}

RecognizedTypes ==
  {"create_account", "payment", "path_payment_strict_send",
   "path_payment_strict_receive", "invoke_host_function", "change_trust",
   "set_options", "begin_sponsoring_future_reserves",
   "end_sponsoring_future_reserves", "create_claimable_balance", "manage_sell_offer"}

\* C27: an operation of a type that is not recognized, or one that refers to
\* an asset code other than USDC or EURC (the native asset has none), makes
\* processTransactions throw.
C27_UnknownAborts ==
  [][IsOpStep /\ (\/ op'.type \notin RecognizedTypes
                  \/ \E code \in AssetCodesOf(op') :
                       ~IsUndefined(code) /\ code[1] \notin {"USDC", "EURC"}) =>
       pc' = "threw" /\ error' # NoError]_vars

(* ------------------------------- C28 ---------------------------------- *)

\* C28: one TxRow per transaction, in input order: after k transactions the
\* list has k rows and row i carries the hash of transaction i; the snapshot
\* of the row pushed equals the running balances after that transaction, fee
\* included; no later step changes a row that has been pushed.
C28_OneRowPerTransaction ==
  /\ [](/\ pc \in {"next", "returned"} => Len(txRows) = txCount
        /\ pc = "ops" => Len(txRows) = txCount - 1
        /\ \A i \in 1..Len(txRows) : txRows[i].transactionHash = TxHash(i))
  /\ [][/\ IsSnapshotStep =>
             /\ Len(txRows') = Len(txRows) + 1
             /\ txRows'[Len(txRows')].transactionHash = tx.hash
             /\ txRows'[Len(txRows')].balances = balances'
        /\ Len(txRows') >= Len(txRows)
        /\ \A i \in 1..Len(txRows) : txRows'[i] = txRows[i]]_vars

\* two rows returned, the first with a snapshot that the second transaction's
\* operation and fee have left behind
C28_Witness ==
  /\ pc = "returned"
  /\ Len(txRows) = 2
  /\ Len(txRows[1].ops) = 1
  /\ Len(txRows[2].ops) = 1
  /\ txRows[2].feeStroops = 100
  /\ txRows[1].balances.XLM # txRows[2].balances.XLM
  /\ txRows[1].balances.USDC # txRows[2].balances.USDC
  /\ txRows[2].balances = balances

\* the fills fs are taken one after the other for a request of `requested`
\* units, each of min(still requested, remaining quantity of its batch)
RECURSIVE MinWalk(_, _, _)
MinWalk(inv, fs, requested) ==
  IF fs = <<>> THEN TRUE
  ELSE
    LET f == Head(fs)
        from == {i \in 1..Len(inv) : inv[i].batchId = f.batchId}
    IN /\ from # {}
       /\ LET i == CHOOSE j \in from : TRUE
              have == inv[i].qtyRemainingStroops
          IN /\ f.amountStroops = IF requested <= have THEN requested ELSE have
             /\ MinWalk([inv EXCEPT ![i].qtyRemainingStroops = @ - f.amountStroops],
                        Tail(fs), requested - f.amountStroops)

\* C33: a successful XLM or USDC disposal of q > 0 units appends fills (of
\* that currency and disposal kind, and nothing else) whose amounts sum to
\* exactly q, each fill's amount being the minimum of the quantity still
\* requested and the remaining quantity of the batch it is taken from.
C33_DisposalFills ==
  [][\A d \in DisposalsRequested :
       d[1] \in {"XLM", "USDC"} /\ d[2] > 0 /\ pc' # "threw"
         => /\ NewFills # <<>>
            /\ \A k \in 1..Len(NewFills) :
                 NewFills[k].currency = d[1] /\ NewFills[k].dispKind = d[3]
            /\ SumAmount(NewFills) = d[2]
            /\ MinWalk(inventories[d[1]], NewFills, d[2])]_vars

\* a payment out of 0.5 XLM has taken the whole first batch of 0.25 and 0.25
\* of the second batch of 0.5
C33_Witness ==
  /\ pc = "ops"
  /\ op.kind = "payment"
  /\ op.direction = "out"
  /\ op.currency = "XLM"
  /\ Len(fills) = 2
  /\ Len(inventories.XLM) = 2
  /\ fills[1].batchId = inventories.XLM[1].batchId
  /\ fills[2].batchId = inventories.XLM[2].batchId
  /\ fills[1].amountStroops = inventories.XLM[1].qtyInitialStroops
  /\ fills[2].amountStroops < inventories.XLM[2].qtyInitialStroops
  /\ fills[1].amountStroops + fills[2].amountStroops = op.amountStroops

\* the batch has not been drawn from
Untouched(b) == b.qtyRemainingStroops = b.qtyInitialStroops

\* C34: in every state, for XLM and for USDC, if a batch has
\* qtyRemainingStroops > 0 then every batch created after it is untouched
\* (qtyRemainingStroops = qtyInitialStroops); the depleted batches form a
\* prefix of the list and at most one batch is partially consumed.
C34_DepletedPrefix ==
  \A c \in {"XLM", "USDC"} :
    LET inv == inventories[c]
        partial == {i \in 1..Len(inv) :
                      inv[i].qtyRemainingStroops # 0 /\ ~Untouched(inv[i])}
    IN /\ \A i \in 1..Len(inv) :
            inv[i].qtyRemainingStroops > 0
              => \A j \in (i + 1)..Len(inv) : Untouched(inv[j])
       /\ \A i \in 1..Len(inv) :
            inv[i].qtyRemainingStroops = 0
              => \A j \in 1..(i - 1) : inv[j].qtyRemainingStroops = 0
       /\ Cardinality(partial) <= 1

\* three XLM batches: the first depleted, the second partially consumed, the
\* third untouched
C34_Witness ==
  /\ Len(inventories.XLM) = 3
  /\ inventories.XLM[1].qtyRemainingStroops = 0
  /\ inventories.XLM[2].qtyRemainingStroops > 0
  /\ inventories.XLM[2].qtyRemainingStroops < inventories.XLM[2].qtyInitialStroops
  /\ Untouched(inventories.XLM[3])
  /\ Len(fills) = 2

\* the step ends with the missing-price Error
FailsOnMissingPrice == pc' = "threw" /\ error'.text = "Missing price for"

\* C35: price lookups precede mutation. If a market-priced XLM / USDC
\* disposal (outbound payment, blend_deposit), or the destination-price
\* lookup of a swap, fails with a missing price, the operation has appended
\* no fill and changed no batch quantity (no batch was added either).
C35_LookupBeforeMutation ==
  [][/\ \A d \in DisposalsRequested :
          /\ d[1] \in {"XLM", "USDC"}
          /\ d[3] \in {"payment_out", "blend_deposit"}
          /\ FailsOnMissingPrice
          => fills' = fills /\ inventories' = inventories
     /\ (/\ IsOpStep
         /\ op'.kind = "swap"
         /\ pc' = "threw"
         /\ IsMissingPrice(error', op'.destinationCurrency, tx.date))
          => fills' = fills /\ inventories' = inventories]_vars

\* XLM bought on the first day is deposited on the second day, for which the
\* book has no XLM price: the deposit has thrown, the batch is whole and
\* there is no fill
C35_Witness ==
  /\ pc = "threw"
  /\ op.kind = "blend_deposit"
  /\ op.currency = "XLM"
  /\ op.amountStroops > 0
  /\ IsMissingPrice(error, "XLM", tx.date)
  /\ Len(inventories.XLM) >= 1
  /\ SumRemaining(inventories.XLM) >= op.amountStroops
  /\ \A i \in 1..Len(inventories.XLM) : Untouched(inventories.XLM[i])
  /\ fills = <<>>

\* C37: a swap op whose sourceAmountStroops is 0 (its destination currency
\* having a price for the day) does not abort the replay: the implied-price
\* computation does not divide by zero, the zero-amount source disposal
\* produces no fill, and the destination leg is acquired.
C37_ZeroSourceSwap ==
  [][(/\ IsOpStep
      /\ op'.kind = "swap"
      /\ op'.sourceAmountStroops = 0
      /\ ~NoEntry(op'.destinationCurrency, tx.date))
       => /\ pc' # "threw"
          /\ error' = NoError
          /\ fills' = fills
          /\ SumInitial(inventories'[op'.destinationCurrency])
               = SumInitial(inventories[op'.destinationCurrency])
                   + op'.destinationAmountStroops]_vars

\* C38: a disposal of 0 units (outbound payment, blend_deposit or swap_fee of
\* amount 0) is a no-op: it appends no fill, changes no batch and looks no
\* price up (it goes through also when the book has no price for the
\* currency and day); every fill has amountStroops > 0.
C38_ZeroDisposal ==
  /\ [](\A k \in 1..Len(fills) : fills[k].amountStroops > 0)
  /\ [][\A d \in DisposalsRequested :
          d[2] = 0 /\ d[3] \in {"payment_out", "blend_deposit", "swap_fee"}
            => /\ fills' = fills
               /\ inventories' = inventories
               /\ batchSeq' = batchSeq
               /\ pc' = "ops"
               /\ error' = NoError]_vars

\* XLM is held and the book has no XLM price for the day: a blend_deposit of
\* 0 XLM has gone through and left the batch and the fills alone
C38_Witness ==
  /\ pc = "ops"
  /\ op.kind = "blend_deposit"
  /\ op.currency = "XLM"
  /\ op.amountStroops = 0
  /\ NoEntry("XLM", tx.date)
  /\ Len(inventories.XLM) >= 1
  /\ inventories.XLM[1].qtyRemainingStroops > 0
  /\ fills = <<>>

\* the step is one iteration of the while loop of dispose
IsIteration ==
  /\ pc = "while"
  /\ args.fn = "dispose"
  /\ args'.fn = "dispose"
  /\ args'.iterations = args.iterations + 1

\* C39: computeFifoFills terminates on every finite input with non-negative
\* amounts, returning a result or raising an Error: each iteration of the
\* disposal loop either raises the underflow Error or strictly decreases the
\* quantity still requested (which stays non-negative), and a disposal over a
\* currency with n batches performs at most n + 1 iterations.
C39_Terminates ==
  /\ <>(pc \in {"returned", "threw"})
  /\ [](args.fn = "dispose"
          => args.iterations <= Len(inventories[args.params.currency]) + 1)
  /\ [][IsIteration
          => \/ /\ pc' = "threw"
                /\ error'.text = "FIFO underflow for"
                /\ args'.remaining = args.remaining
             \/ /\ pc' = "while"
                /\ error' = NoError
                /\ args'.remaining < args.remaining
                /\ args'.remaining >= 0]_vars

\* a payment out of more XLM than the one batch holds: the first iteration
\* has emptied the batch, the second has raised the underflow
C39_Witness ==
  /\ pc = "threw"
  /\ args.fn = "dispose"
  /\ args.params.currency = "XLM"
  /\ Len(inventories.XLM) >= 1
  /\ args.iterations = Len(inventories.XLM) + 1
  /\ Len(fills) >= 1
  /\ error.text = "FIFO underflow for"
  /\ args.remaining > 0
  /\ args.remaining < args.params.amountStroops

\* C36: for a TxRow list produced by processTransactions on which
\* computeFifoFills completes, for each currency the sum of
\* qtyRemainingStroops over its ending batches equals that currency's balance
\* in the last TxRow's snapshot.
C36_InventoryMatchesLedger ==
  args = FifoRunning /\ pc = "returned" /\ txRows # <<>>
    => \A c \in Currency :
         SumRemaining(inventories[c]) = txRows[Len(txRows)].balances[c]

\* the timestamp of an event row: acquisition time of a batch, disposal time
\* of a fill
EventTime(row) ==
  IF row.Tyyppi = "Hankinta" THEN row.Hankintahetki[1] ELSE row.Luovutushetki[1]

\* ISO timestamp p is not later than q
NotLater(p, q) == p[1] < q[1] \/ (p[1] = q[1] /\ p[2] <= q[2])

\* C32: buildEventsCsv orders its event rows by currency and, within a
\* currency, by event timestamp ascending (acquisition time for batches,
\* disposal time for fills), whatever the order of the batches and fills
\* passed in.
C32_EventOrder ==
  args.fn = "buildEventsCsv" /\ result.returned
    => LET rows == SelectSeq(result.value, LAMBDA r : r.Tyyppi # "")
       IN \A i \in 1..Len(rows) : \A j \in (i + 1)..Len(rows) :
            /\ localeCompare(<<rows[i].Valuutta>>, <<rows[j].Valuutta>>) <= 0
            /\ rows[i].Valuutta = rows[j].Valuutta
                 => NotLater(EventTime(rows[i]), EventTime(rows[j]))

\* the message of the Error the claim names, for the transaction of a hash
NoOperationsForWallet(hash) ==
  [name |-> "Error", text |-> "has no operations for this wallet", hash |-> hash]

\* a fetched transaction is left with no operation of the wallet
LeftWithoutOps(call, hash) ==
  /\ \E i \in 1..Len(call.server.transactions.records) :
       call.server.transactions.records[i].hash = hash
  /\ \A i \in 1..Len(call.server.operations.records) :
       LET o == call.server.operations.records[i]
       IN o.transaction_hash = hash => ~OpForWallet(call.wallet, o)

\* C31: fetchTransactionsWithOps fails with 'Transaction <hash> has no
\* operations for this wallet' whenever a fetched transaction is left with no
\* operation after the operations are filtered for the wallet (none
\* fetched, or all dropped as dusting payments or claimable balances of
\* other wallets).
C31_NoOperationsError ==
  args.fn = "fetchTransactionsWithOps" /\ result.returned
    => \A h \in {"tx1", OfferTxHash} :
         LeftWithoutOps(args, h)
           => \E g \in {"tx1", OfferTxHash} :
                LeftWithoutOps(args, g) /\ result.error = NoOperationsForWallet(g)

====
